---- MODULE Spec2Model ----
(***************************************************************************)
(* Model of the canvas render loop of src/src/webgl/canvas.rs: the yew     *)
(* component Canvas<R> (create, the pointer handlers of view, rendered,    *)
(* changed, destroy) and the self-rescheduling animation-frame closure     *)
(* built by Canvas::init_render_loop.                                      *)
(*                                                                         *)
(* The host is the browser's event loop.  An animation frame runs, back to *)
(* back and in registration order, every callback that was requested       *)
(* before the frame began, all with the frame's timestamp; a callback      *)
(* requested during a frame runs in a later frame.  Component methods and  *)
(* pointer handlers run between frames.  yew runs a component's create or  *)
(* changed, its view and its rendered in one pass of its scheduler: no     *)
(* event handler and no animation frame runs in between.                   *)
(***************************************************************************)
EXTENDS Integers, Sequences, FiniteSets, TLC

\* ---------------------------------------------------------------- bounds
\* largest host timestamp handed to an animation-frame callback
MaxTime == 1
\* largest number of callback chains init_render_loop may create
MaxChains == 2
\* largest number of render calls one render_state may receive
MaxFrames == 5
\* largest number of pointer events a recorded pointer history holds
MaxEvents == 2

\* ------------------------------------------------------- input domains
\* renderer values (R: CanvasRenderer + PartialEq), compared by equality
Renderers == {"r1", "r2"}
\* render input values (R::RenderInput: PartialEq)
Inputs == {"i1", "i2"}
\* css values of the width and height props, as <<width, height>>
Sizes == {<<"100%", "100%">>, <<"50%", "50%">>}
\* displayed sizes <<client_width, client_height>> the host may report
ClientSizes == {<<2, 1>>}
\* MouseEvent.buttons bit masks
ButtonMasks == {0, 1}
\* MouseEvent <<offset_x, offset_y>> values (i32)
Offsets == {<<-1, 5>>}

VARIABLES
    props,                 \* the props the component currently holds
    state,                 \* CanvasRenderState behind Arc<Mutex<..>>
    initiate_render_loop,  \* Canvas::initiate_render_loop
    render_pending,        \* yew will call rendered(): after create, or changed() returned true
    mounted,               \* the component exists (created, not destroyed)
    chains,                \* the closures built by init_render_loop, in creation order
    canvas,                \* drawing-buffer size of the canvas element <<width, height>>
    now,                   \* timestamp of the current (or last) animation frame
    frame,                 \* callbacks of the current animation frame still to run
    lastOp,                \* for a tick: its chain, arm and renderer calls
    hInputPending,         \* history: render_input was replaced since the last rendering tick
    hSwap,                 \* history: renderer replaced since the last rendering tick
    hInput,                \* history: input replaced (renderer kept) since the last rendering tick or swap
    hCause,                \* history: why the next rendered() is to initiate a chain
    hRun,                  \* history: ticks of an undisturbed Rendering run since mount, -1 once disturbed
    suspended_locked,      \* a handler rescheduled itself or returned to the host holding the state lock
    mutex,                 \* the Mutex around CanvasRenderState: "unlocked", or as a panic under the guard left it
    hFailed,               \* history: the renderer function that panicked in a tick, "none" before
    hLog,                  \* history: the pointer events are being recorded in hEvents
    hEvents,               \* history: the pointer events delivered so far, in delivery order
    hSeen,                 \* history: Len(hEvents) at the last rendering tick
    gl,                    \* the WebGL context: bindings, texture images, uniform values
    cp,                    \* the ComputeProgram and the uniforms it owns
    gop,                   \* the last ComputeProgram operation: outcome, GL calls, diagnostics
    hSet,                  \* history: the last value given to set_uniform, per index
    hPing,                 \* history: progress of a write_input, (compute, copy_output_to_input)* run
    mSchema,               \* the entry names of a uniform_set! invocation, in declaration order
    mCall,                 \* the pending uniform_set!(@count_constants ..) invocation
    mConsts,               \* the index constants the expansion has emitted so far
    route,                 \* NavigationContext::route
    sections,              \* NavigationContext::sections
    hAdded,                \* history: the pairs given to AddSection since the route last changed
    clock_input,           \* the FractalClockRenderInput of the canvas
    clock_state,           \* Option<FractalClockRenderState>
    clock_call,            \* the last render call: input, RenderData, draw_arrays count
    clock_input_changed,   \* CanvasRenderState::render_input_changed of that canvas
    clock_canvas,          \* <<width, height>> of that canvas element's buffer
    hClockChanges          \* history: the number of Canvas::changed calls so far

\* the recorded pointer history
pvars == <<hLog, hEvents, hSeen>>

\* the compute program and its WebGL context
gvars == <<gl, cp, gop, hSet, hPing>>

\* the canvas component, its shared state and its host
cvars == <<props, state, initiate_render_loop, render_pending, mounted, chains,
           canvas, now, frame, lastOp, hInputPending, hSwap, hInput, hCause, hRun,
           suspended_locked, mutex, hFailed>>

\* the fractal clock renderer
kvars == <<clock_input, clock_state, clock_call, clock_input_changed,
          clock_canvas, hClockChanges>>

\* the other parts of the repository: the expansion of uniform_set!, the
\* navigation context and the fractal clock renderer
ovars == <<mSchema, mCall, mConsts, route, sections, hAdded, kvars>>

vars == <<cvars, pvars, gvars, ovars,
                   mutex, hFailed>>

\* ------------------------------------------------------------ data types
\* Option<T>: None is the empty sequence, Some(v) the sequence holding v
None == <<>>

Some(v) == <<v>>

\* Option::unwrap
Unwrap(o) == o[1]

\* RenderLoopState
Rendering == "Rendering"

Paused == "Paused"

Finished == "Finished"

RenderLoopState == {Rendering, Paused, Finished}

\* MouseData::default()
MouseDataDefault ==
    [primary_button |-> FALSE, secondary_button |-> FALSE, position |-> None]

\* i32 `as u32`: two's complement reinterpretation, as <<high, low>> 16 bit halves
AsU32(x) ==
    LET lo == x % 65536
        hi == ((x - lo) \div 65536) % 65536
    IN  <<hi, lo>>

\* CanvasRenderState::new
CanvasRenderStateNew(renderer, canvas_render_input, render_loop_state) ==
    [renderer |-> renderer,
     render_state |-> None,
     render_input |-> canvas_render_input,
     render_input_changed |-> FALSE,
     render_loop_state |-> render_loop_state,
     mouse_data |-> MouseDataDefault]

\* ---------------------------------------------------------- the renderer
\* A counting renderer: initial_render_state starts the frame counter at 0,
\* render writes the index of the frame it draws into the state.  `by` is
\* the renderer value that built the state, `frames` the render calls made.
initial_render_state(renderer, input, render_data) ==
    [by |-> renderer, frames |-> 0, frame |-> 0]

render(renderer, render_state, input, render_data) ==
    [render_state EXCEPT !.frames = @ + 1, !.frame = render_state.frames]

\* lastOp after a handler that is no tick
NoOp == [op |-> "-", chain |-> 0, branch |-> "-", after_idle |-> FALSE,
         first_draw |-> FALSE, restarted |-> FALSE, cancelled |-> FALSE,
         swap |-> "none", new_events |-> 0, result |-> "ok", calls |-> <<>>]

\* ------------------------------------------------------------------ Init
\* Canvas::create, for the props of the mount
Create(p) ==
    /\ props = p
    /\ state = CanvasRenderStateNew(p.renderer, p.render_input, p.render_loop_state)
    /\ initiate_render_loop = (p.render_loop_state \in {Rendering, Paused})

CanvasInit ==
    /\ \E s \in RenderLoopState :
          Create([renderer |-> "r1", render_input |-> "i1",
                  render_loop_state |-> s, width |-> "100%", height |-> "100%"])
    /\ render_pending = TRUE
    /\ mounted = TRUE
    /\ chains = <<>>
    /\ canvas = <<300, 150>>
    /\ now = 0
    /\ frame = <<>>
    /\ lastOp = NoOp
    /\ hInputPending = FALSE
    /\ hSwap = "none"
    /\ hInput = "none"
    /\ hCause = IF props.render_loop_state \in {Rendering, Paused}
                THEN "mount" ELSE "none"
    /\ hRun = IF props.render_loop_state = Rendering THEN 0 ELSE -1
    /\ suspended_locked = FALSE
    /\ mutex = "unlocked"
    /\ hFailed = "none"

\* no pointer history is recorded
NoLog ==
    /\ hLog = FALSE
    /\ hEvents = <<>>
    /\ hSeen = 0

\* no ComputeProgram has been built
NoProgram ==
    /\ gl = <<>>
    /\ cp = <<>>
    /\ gop = <<>>
    /\ hSet = <<>>
    /\ hPing = <<>>

\* nothing else of the repository is running
NoOther ==
    /\ mSchema = <<>>
    /\ mCall = <<>>
    /\ mConsts = <<>>
    /\ route = "NotFound"
    /\ sections = <<>>
    /\ hAdded = <<>>
    /\ clock_input = <<>>
    /\ clock_state = <<>>
    /\ clock_call = <<>>
    /\ clock_input_changed = FALSE
    /\ clock_canvas = <<300, 150>>
    /\ hClockChanges = 0

Init == CanvasInit /\ NoLog /\ NoProgram /\ NoOther

\* ------------------------------------------------------- the state lock
\* What a handler does with the Mutex<CanvasRenderState>, in program order:
\* "lock" and "unlock" (the guard is created and dropped), the reschedule
\* "request_animation_frame", and the final "return" to the host.
\* a statement that locks through a temporary guard, dropped at its end
LockSection == <<"lock", "unlock">>

\* the acquisitions not yet released before event i
Depth(events, i) ==
    Cardinality({j \in 1..(i - 1) : events[j] = "lock"})
        - Cardinality({j \in 1..(i - 1) : events[j] = "unlock"})

\* the handler takes the lock at least once
Locks(events) == \E i \in DOMAIN events : events[i] = "lock"

\* the handler reaches a suspension point with the lock held
HeldAcrossSuspension(events) ==
    \E i \in DOMAIN events :
        /\ events[i] \in {"request_animation_frame", "return"}
        /\ Depth(events, i) > 0

\* Canvas::view, the four pointer closures
PointerLocks(event) ==
    CASE event.type = "mousedown" ->
            (IF event.buttons % 2 = 1 THEN LockSection ELSE <<>>)
            \o (IF (event.buttons \div 2) % 2 = 1 THEN LockSection ELSE <<>>)
            \o <<"return">>
      [] event.type = "mouseup" ->
            (IF event.buttons % 2 = 0 THEN LockSection ELSE <<>>)
            \o (IF (event.buttons \div 2) % 2 = 0 THEN LockSection ELSE <<>>)
            \o <<"return">>
      [] event.type \in {"mousemove", "mouseleave"} ->
            LockSection \o <<"return">>

\* Canvas::changed: a guard per guarded update, dropped before the next
ChangedLocks(old_props, new_props) ==
    (IF old_props.renderer # new_props.renderer THEN LockSection ELSE <<>>)
    \o (IF old_props.render_input # new_props.render_input
        THEN LockSection ELSE <<>>)
    \o (IF old_props.render_loop_state # new_props.render_loop_state
        THEN LockSection ELSE <<>>)
    \o <<"return">>

\* Canvas::destroy
DestroyLocks == LockSection \o <<"return">>

\* Canvas::rendered: init_render_loop builds the closure and requests the
\* first frame without touching the lock
RenderedLocks(initiate) ==
    IF initiate THEN <<"request_animation_frame", "return">> ELSE <<"return">>

\* mutant of TickLocks: the arms reschedule inside the match, guard alive
TickLocks_ReschedulesInMatch(render_loop_state) ==
    IF render_loop_state = Finished
    THEN <<"lock", "unlock", "return">>
    ELSE <<"lock", "request_animation_frame", "unlock", "return">>

\* the closure of init_render_loop: the guard is a temporary of the match
\* scrutinee and lives to the end of the match; the Rendering and Paused
\* arms fall out of the match and reschedule, the Finished arm returns
\* from inside it, which drops the guard on the way out
TickLocks(render_loop_state) ==
    IF render_loop_state = Finished
    THEN <<"lock", "unlock", "return">>
    ELSE <<"lock", "unlock", "request_animation_frame", "return">>

\* ------------------------------------------------------- pointer handlers
\* Canvas::view, the onmousedown closure
MouseDown(md, buttons) ==
    [md EXCEPT
        !.primary_button = IF buttons % 2 = 1 THEN TRUE ELSE @,
        !.secondary_button = IF (buttons \div 2) % 2 = 1 THEN TRUE ELSE @]

\* Canvas::view, the onmouseup closure
MouseUp(md, buttons) ==
    [md EXCEPT
        !.primary_button = IF buttons % 2 = 0 THEN FALSE ELSE @,
        !.secondary_button = IF (buttons \div 2) % 2 = 0 THEN FALSE ELSE @]

\* Canvas::view, the onmousemove closure
MouseMove(md, offset) ==
    [md EXCEPT !.position = Some(<<AsU32(offset[1]), AsU32(offset[2])>>)]

\* mutant of MouseLeave: leaving the canvas resets the whole pointer state
MouseLeave_Resets(md) == MouseDataDefault

\* Canvas::view, the onmouseleave closure
MouseLeave(md) ==
    [md EXCEPT !.position = None]

\* a MouseEvent: its type, MouseEvent.buttons, <<offset_x, offset_y>>
MouseEvent(type, buttons, offset) ==
    [type |-> type, buttons |-> buttons, offset |-> offset]

\* a pointer event delivered to the canvas element; md is the pointer state
\* its closure leaves.  History: a recorded history holds MaxEvents events.
Pointer(event, md) ==
    /\ mounted
    /\ ~render_pending
    /\ frame = <<>>
    /\ hLog => Len(hEvents) < MaxEvents
    /\ Locks(PointerLocks(event)) => mutex = "unlocked"
    /\ state' = [state EXCEPT !.mouse_data = md]
    /\ suspended_locked' =
          (suspended_locked \/ HeldAcrossSuspension(PointerLocks(event)))
    /\ lastOp' = NoOp
    /\ hEvents' = IF hLog THEN Append(hEvents, event) ELSE hEvents
    /\ UNCHANGED <<props, initiate_render_loop, render_pending, mounted, chains,
                   canvas, now, frame, hInputPending, hSwap, hInput, hCause, hRun,
                   hLog, hSeen, gvars, ovars,
                   mutex, hFailed>>

OnMouseDown(buttons) ==
    Pointer(MouseEvent("mousedown", buttons, <<0, 0>>),
            MouseDown(state.mouse_data, buttons))

OnMouseUp(buttons) ==
    Pointer(MouseEvent("mouseup", buttons, <<0, 0>>),
            MouseUp(state.mouse_data, buttons))

OnMouseMove(offset) ==
    Pointer(MouseEvent("mousemove", 0, offset),
            MouseMove(state.mouse_data, offset))

OnMouseLeave ==
    Pointer(MouseEvent("mouseleave", 0, <<0, 0>>),
            MouseLeave(state.mouse_data))

\* ------------------------------------------------------ component methods
\* a closure that was dropped: cb holds None, nothing is scheduled, and the
\* captured last_time is gone with it
DeadChain ==
    [cb |-> FALSE, scheduled |-> FALSE, last_time |-> 0, drawn |-> FALSE,
     drew_at |-> None, idled |-> FALSE, cancelled |-> FALSE, restarted |-> FALSE]

\* history: the desired state was set to Finished while these chains were live
MarkCancelled(cs) ==
    [c \in DOMAIN cs |->
        IF cs[c].scheduled THEN [cs[c] EXCEPT !.cancelled = TRUE] ELSE cs[c]]

\* mutant of NewChain: the new closure starts from the host's current time
NewChain_StartsNow(cs) ==
    [cb |-> TRUE, scheduled |-> TRUE, last_time |-> now, drawn |-> FALSE,
     drew_at |-> None, idled |-> FALSE, cancelled |-> FALSE,
     restarted |-> /\ cs # <<>>
                   /\ \A c \in DOMAIN cs : ~cs[c].scheduled]

\* Canvas::init_render_loop, the part that runs at once: build the closure
\* (last_time = 0), store it in cb and request the first animation frame.
\* History: restarted = every earlier chain has observed Finished; drew_at =
\* the timestamp of the chain's last tick that took the Rendering arm.
NewChain(cs) ==
    [cb |-> TRUE, scheduled |-> TRUE, last_time |-> 0, drawn |-> FALSE,
     drew_at |-> None, idled |-> FALSE, cancelled |-> FALSE,
     restarted |-> /\ cs # <<>>
                   /\ \A c \in DOMAIN cs : ~cs[c].scheduled]

init_render_loop(cs) == Append(cs, NewChain(cs))

\* Canvas::rendered
Rendered ==
    /\ mounted
    /\ frame = <<>>
    /\ render_pending
    /\ render_pending' = FALSE
    /\ IF ~initiate_render_loop
       THEN UNCHANGED <<chains, initiate_render_loop>>
       ELSE /\ Len(chains) < MaxChains
            /\ chains' = init_render_loop(chains)
            /\ initiate_render_loop' = FALSE
    /\ suspended_locked' =
          (suspended_locked
              \/ HeldAcrossSuspension(RenderedLocks(initiate_render_loop)))
    /\ lastOp' = NoOp
    /\ hCause' = "none"
    /\ UNCHANGED <<props, state, mounted, canvas, now, frame, hInputPending,
                   hSwap, hInput, hRun, pvars, gvars, ovars,
                   mutex, hFailed>>

\* mutant of ChangedState: the renderer is replaced, render_state is kept
ChangedState_KeepsRenderState(st, old_props, new_props) ==
    LET s1 == IF old_props.renderer # new_props.renderer
              THEN [st EXCEPT !.renderer = new_props.renderer]
              ELSE st
        s2 == IF old_props.render_input # new_props.render_input
              THEN [s1 EXCEPT !.render_input = new_props.render_input,
                              !.render_input_changed = TRUE]
              ELSE s1
    IN  IF old_props.render_loop_state # new_props.render_loop_state
        THEN [s2 EXCEPT !.render_loop_state = new_props.render_loop_state]
        ELSE s2

\* mutant of ChangedState: a new render_input also discards render_state
ChangedState_InputResets(st, old_props, new_props) ==
    LET s1 == IF old_props.renderer # new_props.renderer
              THEN [st EXCEPT !.render_state = None,
                              !.renderer = new_props.renderer]
              ELSE st
        s2 == IF old_props.render_input # new_props.render_input
              THEN [s1 EXCEPT !.render_state = None,
                              !.render_input = new_props.render_input,
                              !.render_input_changed = TRUE]
              ELSE s1
    IN  IF old_props.render_loop_state # new_props.render_loop_state
        THEN [s2 EXCEPT !.render_loop_state = new_props.render_loop_state]
        ELSE s2

\* Canvas::changed, the three guarded updates of the shared state, in order
ChangedState(st, old_props, new_props) ==
    LET s1 == IF old_props.renderer # new_props.renderer
              THEN [st EXCEPT !.render_state = None,
                              !.renderer = new_props.renderer]
              ELSE st
        s2 == IF old_props.render_input # new_props.render_input
              THEN [s1 EXCEPT !.render_input = new_props.render_input,
                              !.render_input_changed = TRUE]
              ELSE s1
        s3 == IF old_props.render_loop_state # new_props.render_loop_state
              THEN [s2 EXCEPT !.render_loop_state = new_props.render_loop_state]
              ELSE s2
    IN  s3

\* mutant of ChangedInitiate: every change of the loop state initiates
ChangedInitiate_AnyChange(initiate, old_props, new_props) ==
    IF old_props.render_loop_state # new_props.render_loop_state
    THEN TRUE
    ELSE initiate

\* Canvas::changed, initiate_render_loop after the call
ChangedInitiate(initiate, old_props, new_props) ==
    IF /\ old_props.render_loop_state # new_props.render_loop_state
       /\ old_props.render_loop_state = Finished
    THEN TRUE
    ELSE initiate

\* Canvas::changed, the return value
ChangedResult(old_props, new_props) ==
    \/ /\ old_props.render_loop_state # new_props.render_loop_state
       /\ old_props.render_loop_state = Finished
    \/ old_props.width # new_props.width
    \/ old_props.height # new_props.height

\* Canvas::changed (yew calls it when the new props differ from the old ones)
Changed(new_props) ==
    /\ mounted
    /\ ~render_pending
    /\ frame = <<>>
    /\ new_props # props
    /\ Locks(ChangedLocks(props, new_props)) => mutex = "unlocked"
    /\ props' = new_props
    /\ state' = ChangedState(state, props, new_props)
    /\ initiate_render_loop' = ChangedInitiate(initiate_render_loop, props, new_props)
    /\ render_pending' = (render_pending \/ ChangedResult(props, new_props))
    /\ chains' = IF /\ props.render_loop_state # new_props.render_loop_state
                    /\ new_props.render_loop_state = Finished
                 THEN MarkCancelled(chains)
                 ELSE chains
    /\ lastOp' = NoOp
    /\ hInputPending' = (hInputPending \/ props.render_input # new_props.render_input)
    /\ hSwap' = IF props.renderer # new_props.renderer
                THEN (IF state.render_state # None \/ hSwap = "discarded"
                      THEN "discarded" ELSE "empty")
                ELSE hSwap
    /\ hInput' = IF props.renderer # new_props.renderer
                 THEN "none"
                 ELSE IF props.render_input # new_props.render_input
                      THEN (IF state.render_state = None THEN "absent" ELSE "present")
                      ELSE hInput
    /\ hCause' = IF /\ props.render_loop_state = Finished
                    /\ new_props.render_loop_state # Finished
                 THEN "restart"
                 ELSE hCause
    /\ hRun' = -1
    /\ suspended_locked' =
          (suspended_locked
              \/ HeldAcrossSuspension(ChangedLocks(props, new_props)))
    /\ UNCHANGED <<mounted, canvas, now, frame, pvars, gvars, ovars,
                   mutex, hFailed>>

\* mutant of Destroy: the component goes, the loop state is left as it was
Destroy_KeepsLoopState ==
    /\ mounted
    /\ ~render_pending
    /\ frame = <<>>
    /\ mutex = "unlocked"
    /\ mounted' = FALSE
    /\ render_pending' = FALSE
    /\ lastOp' = NoOp
    /\ hRun' = -1
    /\ UNCHANGED <<props, state, chains, initiate_render_loop, canvas, now, frame,
                   hInputPending, hSwap, hInput, hCause, suspended_locked,
                   pvars, gvars, ovars,
                   mutex, hFailed>>

\* Canvas::destroy
Destroy ==
    /\ mounted
    /\ ~render_pending
    /\ frame = <<>>
    /\ mutex = "unlocked"
    /\ mounted' = FALSE
    /\ render_pending' = FALSE
    /\ state' = [state EXCEPT !.render_loop_state = Finished]
    /\ chains' = MarkCancelled(chains)
    /\ lastOp' = NoOp
    /\ hRun' = -1
    /\ suspended_locked' =
          (suspended_locked \/ HeldAcrossSuspension(DestroyLocks))
    /\ UNCHANGED <<props, initiate_render_loop, canvas, now, frame,
                   hInputPending, hSwap, hInput, hCause, pvars, gvars, ovars,
                   mutex, hFailed>>

\* ------------------------------------------------- the animation callback
\* Canvas::resize_to_display_size: <<width, height, resized>>; the canvas
\* takes the displayed size when the two differ
resize_to_display_size(cv, client) ==
    IF client[1] # cv[1] \/ client[2] # cv[2]
    THEN <<client[1], client[2], TRUE>>
    ELSE <<cv[1], cv[2], FALSE>>

\* the RenderData a rendering tick builds.  Timestamps are non-decreasing
\* and far below 2^32 here, so the u32 subtraction does not wrap.
MakeRenderData(st, cv, client, time, last_time) ==
    LET sz == resize_to_display_size(cv, client) IN
    [initial_render |-> st.render_state = None,
     width |-> sz[1],
     height |-> sz[2],
     resized |-> sz[3],
     input_changed |-> st.render_input_changed,
     time |-> time,
     delta_time |-> time - last_time,
     mouse_data |-> st.mouse_data]

\* mutant of GetOrInsertState: the state is rebuilt on every tick
GetOrInsertState_Always(st, render_data) ==
    initial_render_state(st.renderer, st.render_input, render_data)

\* render_state.get_or_insert_with(|| renderer.initial_render_state(..))
GetOrInsertState(st, render_data) ==
    IF st.render_state = None
    THEN initial_render_state(st.renderer, st.render_input, render_data)
    ELSE Unwrap(st.render_state)

\* the renderer calls a rendering tick makes, in order
TickCalls(st, render_data) ==
    (IF st.render_state = None
     THEN <<[fn |-> "initial_render_state", renderer |-> st.renderer,
             input |-> st.render_input, data |-> render_data]>>
     ELSE <<>>)
    \o <<[fn |-> "render", renderer |-> st.renderer,
          input |-> st.render_input, data |-> render_data]>>

\* mutant of TickRenderingState: the tick consumes the pointer state
TickRenderingState_ConsumesPointer(st, render_data) ==
    [st EXCEPT
        !.render_state = Some(render(st.renderer, GetOrInsertState(st, render_data),
                                     st.render_input, render_data)),
        !.render_input_changed = FALSE,
        !.mouse_data = MouseDataDefault]

\* mutant of TickRenderingState: render_input_changed is not cleared
TickRenderingState_KeepsFlag(st, render_data) ==
    [st EXCEPT
        !.render_state = Some(render(st.renderer, GetOrInsertState(st, render_data),
                                     st.render_input, render_data))]

\* the shared state after the Rendering arm of the closure
TickRenderingState(st, render_data) ==
    [st EXCEPT
        !.render_state = Some(render(st.renderer, GetOrInsertState(st, render_data),
                                     st.render_input, render_data)),
        !.render_input_changed = FALSE]

\* the Rendering arm of the closure, then the reschedule
TickRendering(c, time, client) ==
    LET rd == MakeRenderData(state, canvas, client, time, chains[c].last_time)
        sz == resize_to_display_size(canvas, client)
    IN  /\ canvas' = <<sz[1], sz[2]>>
        /\ state' = TickRenderingState(state, rd)
        /\ chains' = [chains EXCEPT ![c].last_time = time, ![c].drawn = TRUE,
                                    ![c].drew_at = Some(time),
                                    ![c].idled = FALSE]
        /\ lastOp' = [op |-> "tick", chain |-> c, branch |-> Rendering,
                      after_idle |-> chains[c].idled,
                      first_draw |-> ~chains[c].drawn,
                      restarted |-> chains[c].restarted,
                      cancelled |-> chains[c].cancelled,
                      swap |-> hSwap,
                      new_events |-> Len(hEvents) - hSeen,
                      result |-> "ok",
                      calls |-> TickCalls(state, rd)]
        /\ hSeen' = Len(hEvents)
        /\ hInputPending' = FALSE
        /\ hSwap' = "none"
        /\ hInput' = "none"
        /\ hRun' = IF hRun >= 0 THEN hRun + 1 ELSE hRun
        /\ UNCHANGED hCause

\* mutant of TickFinished: the closure is kept and requests the next frame
TickFinished_Reschedules(c) ==
    /\ lastOp' = [NoOp EXCEPT !.op = "tick", !.chain = c, !.branch = Finished]
    /\ hRun' = -1
    /\ UNCHANGED <<chains, state, canvas, hInputPending, hSwap, hInput, hCause,
                   hSeen>>

\* the Finished arm of the closure: *cb.borrow_mut() = None; return
TickFinished(c) ==
    /\ chains' = [chains EXCEPT ![c] = DeadChain]
    /\ lastOp' = [NoOp EXCEPT !.op = "tick", !.chain = c, !.branch = Finished]
    /\ hRun' = -1
    /\ UNCHANGED <<state, canvas, hInputPending, hSwap, hInput, hCause, hSeen>>

\* mutant of TickPaused: the Paused arm drops the closure like Finished
TickPaused_Stops(c) ==
    /\ chains' = [chains EXCEPT ![c] = DeadChain]
    /\ lastOp' = [NoOp EXCEPT !.op = "tick", !.chain = c, !.branch = Paused]
    /\ hRun' = -1
    /\ UNCHANGED <<state, canvas, hInputPending, hSwap, hInput, hCause, hSeen>>

\* mutant of TickPaused: a Paused tick moves the reference time forward
TickPaused_AdvancesTime(c) ==
    /\ chains' = [chains EXCEPT ![c].idled = TRUE, ![c].last_time = now]
    /\ lastOp' = [NoOp EXCEPT !.op = "tick", !.chain = c, !.branch = Paused]
    /\ hRun' = -1
    /\ UNCHANGED <<state, canvas, hInputPending, hSwap, hInput, hCause, hSeen>>

\* the Paused arm of the closure: nothing, then the reschedule
TickPaused(c) ==
    /\ chains' = [chains EXCEPT ![c].idled = TRUE]
    /\ lastOp' = [NoOp EXCEPT !.op = "tick", !.chain = c, !.branch = Paused]
    /\ hRun' = -1
    /\ UNCHANGED <<state, canvas, hInputPending, hSwap, hInput, hCause, hSeen>>

\* one run of the closure of the chain at the head of the frame's callbacks
Tick(client) ==
    /\ frame # <<>>
    /\ mutex = "unlocked"
    /\ frame' = Tail(frame)
    /\ LET c == Head(frame) IN
       CASE state.render_loop_state = Rendering -> TickRendering(c, now, client)
         [] state.render_loop_state = Finished -> TickFinished(c)
         [] state.render_loop_state = Paused -> TickPaused(c)
    /\ suspended_locked' =
          (suspended_locked
              \/ HeldAcrossSuspension(TickLocks(state.render_loop_state)))
    /\ UNCHANGED <<props, initiate_render_loop, render_pending, mounted, now,
                   hLog, hEvents, gvars, ovars,
                   mutex, hFailed>>

\* the chains whose callback is registered for the next animation frame
Scheduled(cs) == SelectSeq([i \in 1..Len(cs) |-> i], LAMBDA i : cs[i].scheduled)

\* the render calls the present render_state has received (0 when absent)
FramesOf(st) ==
    IF st.render_state = None THEN 0 ELSE Unwrap(st.render_state).frames

\* the host begins an animation frame with timestamp `time`
BeginFrame(time) ==
    /\ ~render_pending
    /\ frame = <<>>
    /\ Scheduled(chains) # <<>>
    /\ time >= now
    /\ state.render_loop_state = Rendering
          => FramesOf(state) + Len(Scheduled(chains)) <= MaxFrames
    /\ frame' = Scheduled(chains)
    /\ now' = time
    /\ lastOp' = NoOp
    /\ UNCHANGED <<props, state, initiate_render_loop, render_pending, mounted,
                   chains, canvas, hInputPending, hSwap, hInput, hCause, hRun,
                   suspended_locked, pvars, gvars, ovars,
                   mutex, hFailed>>

\* ------------------------------------------------------------------ Next
PropsSet ==
    {[renderer |-> r, render_input |-> i, render_loop_state |-> s,
      width |-> z[1], height |-> z[2]] :
        r \in Renderers, i \in Inputs, s \in RenderLoopState, z \in Sizes}

Next ==
    \/ \E b \in ButtonMasks : OnMouseDown(b)
    \/ \E b \in ButtonMasks : OnMouseUp(b)
    \/ \E o \in Offsets : OnMouseMove(o)
    \/ OnMouseLeave
    \/ Rendered
    \/ \E p \in PropsSet : Changed(p)
    \/ Destroy
    \/ \E t \in 0..MaxTime : BeginFrame(t)
    \/ \E cl \in ClientSizes : Tick(cl)

Spec == Init /\ [][Next]_vars

\* the host keeps delivering animation frames: a frame begins while a
\* callback is registered, and every callback of a begun frame is run
FairSpec ==
    /\ Spec
    /\ WF_vars(\E t \in 0..MaxTime : BeginFrame(t))
    /\ WF_vars(\E cl \in ClientSizes : Tick(cl))

\* ------------------------------------------- recorded pointer histories
\* MouseEvent.buttons of the recorded events: both button bits
PointerButtonMasks == {0, 1, 2, 3}

\* <<offset_x, offset_y>> of the recorded events
PointerOffsets == {<<-1, 5>>, <<3, 4>>}

\* the props of the recorded runs: the mount's, drawing or paused
PointerProps ==
    {p \in PropsSet : /\ p.renderer = "r1" /\ p.render_input = "i1"
                      /\ p.width = "100%" /\ p.height = "100%"
                      /\ p.render_loop_state # Finished}

\* the canvas as mounted, with the pointer history being recorded
PointerInit ==
    /\ CanvasInit
    /\ NoOther
    /\ hLog = TRUE
    /\ hEvents = <<>>
    /\ hSeen = 0
    /\ NoProgram

PointerNext ==
    \/ \E b \in PointerButtonMasks : OnMouseDown(b)
    \/ \E b \in PointerButtonMasks : OnMouseUp(b)
    \/ \E o \in PointerOffsets : OnMouseMove(o)
    \/ OnMouseLeave
    \/ Rendered
    \/ \E p \in PointerProps : Changed(p)
    \/ BeginFrame(now)
    \/ \E cl \in ClientSizes : Tick(cl)

PointerSpec == PointerInit /\ [][PointerNext]_vars

\* ======================================================================
\* The compute program of src/src/webgl/compute.rs and the uniforms of
\* src/src/webgl/mod.rs, run against one WebGL context.
\* ------------------------------------------------------------- bounds
\* largest number of input textures a ComputeProgram is built with
MaxInputs == 2
\* largest number of compute/copy rounds a recorded ping-pong run counts
MaxRounds == 2

\* ------------------------------------------------------- input domains
\* <<width, height>> given to ComputeProgram::new (u32)
Dims == {<<1, 1>>, <<32768, 32768>>}
\* the &[f32] buffers given to write_input: for a 1 x 1 texture two of the
\* right length, one short, one long, and the empty slice
Datas == {<<1, 0, 0, 1>>, <<0, 1, 1, 0>>, <<1, 0, 0>>, <<1, 0, 0, 1, 0>>, <<>>}
\* the input indices given to write_input and copy_output_to_input
Indices == {0, 1}
\* the f32 values given to set_uniform
Values == {1, 2}
\* the fragment shaders: "identity" copies the texel of u_input_0 (it reads
\* u_input_0 and u_dimensions only), "fill" writes u_a + u_b to every
\* channel (it reads u_a and u_b only)
Kernels == {"identity", "fill"}

\* ------------------------------------------------------ u32 arithmetic
\* a u32 is kept as <<high, low>> 16 bit halves (see AsU32)
\* (x * y) mod 2^16 for 16 bit x, y
MulLo16(x, y) ==
    (x * (y % 256) + ((x * (y \div 256)) % 256) * 256) % 65536

\* (x * y) div 2^16 for 16 bit x, y
MulHi16(x, y) ==
    (x * (y % 256) + ((x * (y \div 256)) % 256) * 256) \div 65536
        + (x * (y \div 256)) \div 256

\* u32::wrapping_mul
WrappingMul(a, b) ==
    <<(MulHi16(a[2], b[2]) + MulLo16(a[1], b[2]) + MulLo16(a[2], b[1])) % 65536,
      MulLo16(a[2], b[2])>>

\* the product of two u32 does not fit in a u32
MulOverflows(a, b) ==
    \/ a[1] > 0 /\ b[1] > 0
    \/ MulHi16(a[1], b[2]) > 0
    \/ MulHi16(a[2], b[1]) > 0
    \/ MulHi16(a[2], b[2]) + MulLo16(a[1], b[2]) + MulLo16(a[2], b[1]) >= 65536

\* ------------------------------------------------------ the GL context
\* the texture units of the context
Units == 0..MaxInputs

\* MAX_TEXTURE_SIZE of the context
MaxTextureSize == 16384

\* object names, in the order ComputeProgram::new creates the textures
OutputTexture == 1

InputTexture(index) == index + 2

Textures == 1..(MaxInputs + 1)

\* the uniforms a linked program has active, in index order, by kernel
ActiveUniforms(kernel) ==
    IF kernel = "identity" THEN <<"u_input_0", "u_dimensions">>
    ELSE <<"u_a", "u_b">>

\* the elements of a sequence
Range(seq) == {seq[i] : i \in DOMAIN seq}

\* the value a uniform holds after linking
UniformZero(name) == IF name = "u_dimensions" THEN <<0, 0>> ELSE <<0>>

\* a context right after creation: nothing bound, no program linked, no
\* texture image
GlNew ==
    [program |-> None,
     framebuffer |-> None,
     array_buffer |-> None,
     active_texture |-> 0,
     texture_2d |-> [u \in Units |-> None],
     attrib_enabled |-> FALSE,
     viewport |-> <<0, 0, 300, 150>>,
     attachment |-> None,
     kernel |-> "none",
     images |-> [t \in Textures |-> None],
     uniforms |-> <<>>]

\* a call of a method of the context
Call(fn, arg) == [fn |-> fn, arg |-> arg]

UniformFns ==
    {"uniform1f", "uniform2f", "uniform3f", "uniform4f",
     "uniform1i", "uniform2i", "uniform3i", "uniform4i"}

\* texImage2D(TEXTURE_2D, 0, RGBA, width, height, 0, RGBA, FLOAT, data) on
\* the texture bound to the active unit; data is None (the image is
\* zeroed) or Some(buffer).  An error leaves the texture as it was.
TexImage2D(g, width, height, data) ==
    LET bound == g.texture_2d[g.active_texture] IN
    IF \/ bound = None
       \/ width > MaxTextureSize \/ height > MaxTextureSize
    THEN g
    ELSE LET n == width * height * 4 IN
         IF data = None
         THEN [g EXCEPT !.images[Unwrap(bound)] = Some([i \in 1..n |-> 0])]
         ELSE IF Len(Unwrap(data)) < n
              THEN g
              ELSE [g EXCEPT !.images[Unwrap(bound)] =
                                Some(SubSeq(Unwrap(data), 1, n))]

\* the image behind the bound framebuffer, None when it has none
FramebufferImage(g) ==
    IF g.framebuffer = None \/ g.attachment = None
    THEN None
    ELSE g.images[Unwrap(g.attachment)]

\* copyTexImage2D(TEXTURE_2D, 0, RGBA, 0, 0, width, height, 0): the texture
\* bound to the active unit takes the pixels of the bound framebuffer
CopyTexImage2D(g, width, height) ==
    LET bound == g.texture_2d[g.active_texture] IN
    IF bound = None \/ FramebufferImage(g) = None
    THEN g
    ELSE [g EXCEPT !.images[Unwrap(bound)] = FramebufferImage(g)]

\* what texture2D reads through a sampler uniform: the image of the
\* texture bound to the unit the uniform names, opaque black without one
Sample(g, sampler, n) ==
    LET unit == g.uniforms[sampler][1]
        bound == IF unit \in Units THEN g.texture_2d[unit] ELSE None
    IN  IF bound = None \/ g.images[Unwrap(bound)] = None
        THEN [i \in 1..n |-> IF i % 4 = 0 THEN 1 ELSE 0]
        ELSE Unwrap(g.images[Unwrap(bound)])

\* the pixels the fragment shader writes
KernelOutput(g, n) ==
    IF g.kernel = "identity"
    THEN Sample(g, "u_input_0", n)
    ELSE [i \in 1..n |-> g.uniforms["u_a"][1] + g.uniforms["u_b"][1]]

\* drawArrays(TRIANGLES, 0, 6) of the full-screen quad: with the program in
\* use, the vertex array enabled and the viewport on the whole image, every
\* pixel of the bound framebuffer is written once
DrawArrays(g) ==
    IF \/ g.program = None
       \/ ~g.attrib_enabled
       \/ g.array_buffer = None
       \/ FramebufferImage(g) = None
    THEN g
    ELSE LET n == Len(Unwrap(FramebufferImage(g))) IN
         IF g.viewport[3] * g.viewport[4] * 4 # n
         THEN g
         ELSE [g EXCEPT !.images[Unwrap(g.attachment)] =
                           Some(KernelOutput(g, n))]

\* the context after one call
GlStep(g, c) ==
    CASE c.fn = "use_program" -> [g EXCEPT !.program = c.arg]
      [] c.fn = "link_program" ->
            [g EXCEPT !.kernel = c.arg,
                      !.uniforms = [n \in Range(ActiveUniforms(c.arg))
                                       |-> UniformZero(n)]]
      [] c.fn = "bind_framebuffer" -> [g EXCEPT !.framebuffer = c.arg]
      [] c.fn = "framebuffer_texture_2d" ->
            IF g.framebuffer = None THEN g ELSE [g EXCEPT !.attachment = c.arg]
      [] c.fn = "bind_buffer" -> [g EXCEPT !.array_buffer = c.arg]
      [] c.fn = "active_texture" ->
            IF c.arg \in Units THEN [g EXCEPT !.active_texture = c.arg] ELSE g
      [] c.fn = "bind_texture" ->
            [g EXCEPT !.texture_2d[g.active_texture] = c.arg]
      [] c.fn = "tex_image_2d" -> TexImage2D(g, c.arg[1], c.arg[2], c.arg[3])
      [] c.fn = "copy_tex_image_2d" -> CopyTexImage2D(g, c.arg[1], c.arg[2])
      [] c.fn \in UniformFns ->
            IF g.program = None \/ c.arg[1] \notin DOMAIN g.uniforms
            THEN g
            ELSE [g EXCEPT !.uniforms[c.arg[1]] = c.arg[2]]
      [] c.fn = "enable_vertex_attrib_array" -> [g EXCEPT !.attrib_enabled = TRUE]
      [] c.fn = "disable_vertex_attrib_array" -> [g EXCEPT !.attrib_enabled = FALSE]
      [] c.fn = "viewport" -> [g EXCEPT !.viewport = c.arg]
      [] c.fn = "draw_arrays" -> DrawArrays(g)
      [] OTHER -> g

\* the context after the calls, in order
RECURSIVE GlRun(_, _)
GlRun(g, calls) ==
    IF calls = <<>> THEN g ELSE GlRun(GlStep(g, Head(calls)), Tail(calls))

\* --------------------------------------------------------------- Uniform
\* format!("u_input_{i}")
InputName(i) == "u_input_" \o ToString(i)

\* Uniform::new: the wrapper, the GL calls made and the diagnostics.  The
\* location is present exactly for a name the linked program has active;
\* an absent one is reported with the names that are, and is no failure.
UniformNew(kernel, name, type, data) ==
    LET active == ActiveUniforms(kernel)
        location == IF name \in Range(active) THEN Some(name) ELSE None
    IN  [result |-> "ok",
         uniform |-> [name |-> name, location |-> location,
                      type |-> type, data |-> data],
         calls |-> <<Call("get_uniform_location", name)>>
                   \o (IF location = None
                       THEN <<Call("get_program_parameter", "ACTIVE_UNIFORMS")>>
                            \o [i \in DOMAIN active |->
                                   Call("get_active_uniform", i - 1)]
                       ELSE <<>>),
         log |-> IF location = None
                 THEN <<[level |-> "error", name |-> name, options |-> active]>>
                 ELSE <<>>]

\* Uniform::set_data
UniformSetData(u, data) == [u EXCEPT !.data = data]

\* UniformData::apply for tuples: uniform<n>f for f32, uniform<n>i for i32
UniformFn(u) ==
    "uniform" \o ToString(Len(u.data)) \o (IF u.type = "f32" THEN "f" ELSE "i")

\* mutant of UniformApplyCalls: the data is written whatever the location
UniformApplyCalls_Always(u) ==
    <<Call(UniformFn(u), <<u.name, u.data>>)>>

\* Uniform::apply, the GL calls: one write when the location is present
UniformApplyCalls(u) ==
    IF u.location # None
    THEN <<Call(UniformFn(u), <<Unwrap(u.location), u.data>>)>>
    ELSE <<>>

\* Uniform::apply, the diagnostics: a warning when the location is absent
UniformApplyLog(u) ==
    IF u.location # None
    THEN <<>>
    ELSE <<[level |-> "warn", name |-> u.name, options |-> <<>>]>>

\* ------------------------------------------------------- ComputeProgram
\* the concatenation of the sequences of a sequence
RECURSIVE Flatten(_)
Flatten(seqs) ==
    IF seqs = <<>> THEN <<>> ELSE Head(seqs) \o Flatten(Tail(seqs))

\* ComputeProgram::create_texture: the calls that touch bindings or images
CreateTextureCalls(texture, width, height) ==
    <<Call("create_texture", texture),
      Call("bind_texture", Some(texture)),
      Call("tex_image_2d", <<width, height, None>>),
      Call("bind_texture", None)>>

\* the uniform set of the program, as uniform_set! declares it:
\* u_a: (f32,) = (1.0,) at index 0 and u_b: (f32,) (the default) at index 1
SetDeclarations ==
    <<[name |-> "u_a", type |-> "f32", data |-> <<1>>],
      [name |-> "u_b", type |-> "f32", data |-> <<0>>]>>

\* UniformSet::initialize: Uniform::new per declared uniform, in order
SetInitialize(kernel) ==
    [i \in DOMAIN SetDeclarations |->
        UniformNew(kernel, SetDeclarations[i].name, SetDeclarations[i].type,
                   SetDeclarations[i].data)]

\* ComputeProgram::new, the Uniform::new of the input samplers
InputUniforms(kernel, inputs) ==
    [i \in 1..inputs |-> UniformNew(kernel, InputName(i - 1), "i32", <<i - 1>>)]

\* ComputeProgram::new: the program built, the calls and the diagnostics
ComputeProgramNew(width, height, inputs, kernel) ==
    LET ins == InputUniforms(kernel, inputs)
        dim == UniformNew(kernel, "u_dimensions", "f32", <<width, height>>)
        set == SetInitialize(kernel)
    IN  [result |-> IF \/ \E i \in DOMAIN ins : ins[i].result # "ok"
                       \/ dim.result # "ok"
                       \/ \E i \in DOMAIN set : set[i].result # "ok"
                    THEN "panic" ELSE "ok",
         program |->
            [width |-> width,
             height |-> height,
             inputs |-> [i \in 1..inputs |->
                            [texture |-> InputTexture(i - 1),
                             uniform |-> ins[i].uniform]],
             output_texture |-> OutputTexture,
             dimensions_uniform |-> dim.uniform,
             uniforms |-> [i \in DOMAIN set |-> set[i].uniform]],
         calls |->
            CreateTextureCalls(OutputTexture, width, height)
            \o <<Call("link_program", kernel)>>
            \o Flatten([i \in 1..inputs |->
                          CreateTextureCalls(InputTexture(i - 1), width, height)
                          \o ins[i].calls])
            \o <<Call("bind_framebuffer", Some("frame_buffer")),
                 Call("framebuffer_texture_2d", Some(OutputTexture)),
                 Call("bind_framebuffer", None),
                 Call("bind_buffer", Some("vertex_buffer")),
                 Call("buffer_data", "VERTICES"),
                 Call("bind_buffer", None)>>
            \o dim.calls
            \o Flatten([i \in DOMAIN set |-> set[i].calls]),
         log |-> Flatten([i \in 1..inputs |-> ins[i].log]) \o dim.log
                 \o Flatten([i \in DOMAIN set |-> set[i].log])]

\* self.width * self.height * 4 in u32: where the build checks overflow a
\* product that does not fit panics, where it does not the product wraps
TextureLength(c, overflow_checks) ==
    LET w == AsU32(c.width)
        h == AsU32(c.height)
    IN  [panics |-> /\ overflow_checks
                    /\ \/ MulOverflows(w, h)
                       \/ MulOverflows(WrappingMul(w, h), AsU32(4)),
         value |-> WrappingMul(WrappingMul(w, h), AsU32(4))]

\* ComputeProgram::write_input, what comes before the first GL call: the
\* assert_eq! on the length, then the indexing of self.inputs
WriteInputResult(c, index, data, overflow_checks) ==
    IF TextureLength(c, overflow_checks).panics THEN "panic"
    ELSE IF AsU32(Len(data)) # TextureLength(c, overflow_checks).value THEN "panic"
    ELSE IF index >= Len(c.inputs) THEN "panic"
    ELSE "ok"

\* ComputeProgram::write_input, the GL calls
WriteInputCalls(c, index, data) ==
    <<Call("bind_texture", Some(c.inputs[index + 1].texture)),
      Call("tex_image_2d", <<c.width, c.height, Some(data)>>),
      Call("bind_texture", None)>>

\* mutant of BindInputsCalls: every input is bound on the unit left active
BindInputsCalls_OneUnit(c) ==
    Flatten([i \in DOMAIN c.inputs |->
                <<Call("bind_texture", Some(c.inputs[i].texture))>>
                \o UniformApplyCalls(c.inputs[i].uniform)])

\* ComputeProgram::compute, the binding of the inputs to their units
BindInputsCalls(c) ==
    Flatten([i \in DOMAIN c.inputs |->
                <<Call("active_texture", i - 1),
                  Call("bind_texture", Some(c.inputs[i].texture))>>
                \o UniformApplyCalls(c.inputs[i].uniform)])

\* UniformSet::apply_all
ApplyAllCalls(set) == Flatten([i \in DOMAIN set |-> UniformApplyCalls(set[i])])

\* mutant of ComputeCalls: the uniform set is not applied
ComputeCalls_NoApplyAll(c) ==
    <<Call("use_program", Some("program")),
      Call("bind_framebuffer", Some("frame_buffer"))>>
    \o BindInputsCalls(c)
    \o <<Call("bind_buffer", Some("vertex_buffer")),
         Call("get_attrib_location", "a_position"),
         Call("vertex_attrib_pointer", "a_position"),
         Call("enable_vertex_attrib_array", "a_position")>>
    \o UniformApplyCalls(c.dimensions_uniform)
    \o <<Call("viewport", <<0, 0, c.width, c.height>>),
         Call("draw_arrays", 6),
         Call("disable_vertex_attrib_array", "a_position"),
         Call("bind_buffer", None),
         Call("bind_texture", None),
         Call("bind_framebuffer", None),
         Call("use_program", None)>>

\* ComputeProgram::compute, the GL calls
ComputeCalls(c) ==
    <<Call("use_program", Some("program")),
      Call("bind_framebuffer", Some("frame_buffer"))>>
    \o BindInputsCalls(c)
    \o <<Call("bind_buffer", Some("vertex_buffer")),
         Call("get_attrib_location", "a_position"),
         Call("vertex_attrib_pointer", "a_position"),
         Call("enable_vertex_attrib_array", "a_position")>>
    \o UniformApplyCalls(c.dimensions_uniform)
    \o ApplyAllCalls(c.uniforms)
    \o <<Call("viewport", <<0, 0, c.width, c.height>>),
         Call("draw_arrays", 6),
         Call("disable_vertex_attrib_array", "a_position"),
         Call("bind_buffer", None),
         Call("bind_texture", None),
         Call("bind_framebuffer", None),
         Call("use_program", None)>>

\* ComputeProgram::compute, the diagnostics of the uniforms it applies
ComputeLog(c) ==
    Flatten([i \in DOMAIN c.inputs |-> UniformApplyLog(c.inputs[i].uniform)])
    \o UniformApplyLog(c.dimensions_uniform)
    \o Flatten([i \in DOMAIN c.uniforms |-> UniformApplyLog(c.uniforms[i])])

\* ComputeProgram::copy_output, the GL calls
CopyOutputCalls(c, texture) ==
    <<Call("bind_framebuffer", Some("frame_buffer")),
      Call("active_texture", 0),
      Call("bind_texture", Some(texture)),
      Call("copy_tex_image_2d", <<c.width, c.height>>),
      Call("bind_texture", None),
      Call("bind_framebuffer", None)>>

\* ComputeProgram::read_output, the GL calls
ReadOutputCalls(c) ==
    <<Call("bind_framebuffer", Some("frame_buffer")),
      Call("read_pixels", <<c.width, c.height>>),
      Call("bind_framebuffer", None)>>

\* ----------------------------------------------- the program's operations
\* the record of an operation: its name and arguments, whether it returned
\* or panicked, the GL calls it made, its diagnostics, the value it returned
Op(op, arg, result, calls, log, value) ==
    [op |-> op, arg |-> arg, result |-> result, calls |-> calls, log |-> log,
     value |-> value]

\* no canvas is mounted
NoCanvas ==
    /\ props = <<>>
    /\ state = <<>>
    /\ initiate_render_loop = FALSE
    /\ render_pending = FALSE
    /\ mounted = FALSE
    /\ chains = <<>>
    /\ canvas = <<300, 150>>
    /\ now = 0
    /\ frame = <<>>
    /\ lastOp = NoOp
    /\ hInputPending = FALSE
    /\ hSwap = "none"
    /\ hInput = "none"
    /\ hCause = "none"
    /\ hRun = -1
    /\ suspended_locked = FALSE
    /\ mutex = "unlocked"
    /\ hFailed = "none"

\* a fresh context, no program built yet
GpuInit ==
    /\ NoCanvas
    /\ NoOther
    /\ NoLog
    /\ gl = GlNew
    /\ cp = None
    /\ gop = Op("-", <<>>, "ok", <<>>, <<>>, <<>>)
    /\ hSet = <<>>
    /\ hPing = None

\* an operation may be called: the program exists and nothing has panicked
Callable == cp # None /\ gop.result = "ok"

\* ComputeProgram::new: the program exists when no step of it panicked
New(width, height, inputs, kernel) ==
    /\ cp = None
    /\ gop.result = "ok"
    /\ LET built == ComputeProgramNew(width, height, inputs, kernel)
       IN  /\ cp' = IF built.result = "ok" THEN Some(built.program) ELSE None
           /\ gl' = GlRun(gl, built.calls)
           /\ gop' = Op("new", <<width, height, inputs>>, built.result,
                        built.calls, built.log, <<>>)
    /\ hSet' = [i \in DOMAIN SetDeclarations |-> SetDeclarations[i].data]
    /\ hPing' = None
    /\ UNCHANGED <<cvars, pvars, ovars>>

\* ComputeProgram::write_input, in a build with or without overflow
\* checks.  History: a write to input 0 starts a run.
WriteInput(index, data, overflow_checks) ==
    /\ Callable
    /\ LET c == Unwrap(cp)
           result == WriteInputResult(c, index, data, overflow_checks)
           calls == IF result = "ok" THEN WriteInputCalls(c, index, data) ELSE <<>>
       IN  /\ gl' = GlRun(gl, calls)
           /\ gop' = Op("write_input", <<index, data>>, result, calls, <<>>, <<>>)
           /\ hPing' = IF result = "ok" /\ index = 0
                        THEN Some([d |-> data, k |-> 0, phase |-> "copied"])
                        ELSE None
    /\ UNCHANGED <<cp, hSet, cvars, pvars, ovars>>

\* ComputeProgram::compute.  History: a run counts MaxRounds rounds.
Compute ==
    /\ Callable
    /\ IF hPing = None THEN TRUE ELSE Unwrap(hPing).k < MaxRounds
    /\ LET c == Unwrap(cp) IN
           /\ gl' = GlRun(gl, ComputeCalls(c))
           /\ gop' = Op("compute", <<>>, "ok", ComputeCalls(c), ComputeLog(c), <<>>)
    /\ hPing' = IF hPing = None THEN None
                 ELSE IF Unwrap(hPing).phase = "copied"
                      THEN Some([Unwrap(hPing) EXCEPT !.phase = "computed"])
                      ELSE None
    /\ UNCHANGED <<cp, hSet, cvars, pvars, ovars>>

\* ComputeProgram::copy_output_to_input: self.inputs is indexed first
CopyOutputToInput(input_index) ==
    /\ Callable
    /\ LET c == Unwrap(cp)
           result == IF input_index >= Len(c.inputs) THEN "panic" ELSE "ok"
           calls == IF result = "ok"
                    THEN CopyOutputCalls(c, c.inputs[input_index + 1].texture)
                    ELSE <<>>
       IN  /\ gl' = GlRun(gl, calls)
           /\ gop' = Op("copy_output_to_input", <<input_index>>, result, calls,
                        <<>>, <<>>)
           /\ hPing' = IF hPing = None \/ result # "ok" \/ input_index # 0
                        THEN None
                        ELSE IF Unwrap(hPing).phase = "computed"
                             THEN Some([Unwrap(hPing) EXCEPT
                                           !.phase = "copied", !.k = @ + 1])
                             ELSE None
    /\ UNCHANGED <<cp, hSet, cvars, pvars, ovars>>

\* Float32Array::new_with_length(n) for a u32 n: n zeros
NewWithLength(n) == [i \in 1..(n[1] * 65536 + n[2]) |-> 0]

\* ComputeProgram::read_output: the array is sized first, then filled from
\* the framebuffer (it stays as allocated when the framebuffer has no image)
ReadOutput(overflow_checks) ==
    /\ Callable
    /\ LET c == Unwrap(cp)
           result == IF TextureLength(c, overflow_checks).panics
                     THEN "panic" ELSE "ok"
           calls == IF result = "ok" THEN ReadOutputCalls(c) ELSE <<>>
           bound == GlStep(gl, Call("bind_framebuffer", Some("frame_buffer")))
       IN  /\ gl' = GlRun(gl, calls)
           /\ gop' = Op("read_output", <<>>, result, calls, <<>>,
                        IF result # "ok" THEN <<>>
                        ELSE IF FramebufferImage(bound) # None
                        THEN Unwrap(FramebufferImage(bound))
                        ELSE NewWithLength(
                                 TextureLength(c, overflow_checks).value))
    /\ UNCHANGED <<cp, hSet, hPing, cvars, pvars, ovars>>

\* ComputeProgram::set_uniform::<UNIFORM_LOCATION>: access(), then set_data
SetUniform(uniform_location, data) ==
    /\ Callable
    /\ cp' = Some([Unwrap(cp) EXCEPT
                      !.uniforms[uniform_location + 1] = UniformSetData(@, data)])
    /\ gop' = Op("set_uniform", <<uniform_location, data>>, "ok", <<>>, <<>>, <<>>)
    /\ hSet' = [hSet EXCEPT ![uniform_location + 1] = data]
    /\ UNCHANGED <<gl, hPing, cvars, pvars, ovars>>

GpuNext ==
    \/ \E d \in Dims, n \in 0..MaxInputs, k \in Kernels : New(d[1], d[2], n, k)
    \/ \E i \in Indices, d \in Datas, oc \in BOOLEAN : WriteInput(i, d, oc)
    \/ Compute
    \/ \E i \in Indices : CopyOutputToInput(i)
    \/ \E oc \in BOOLEAN : ReadOutput(oc)
    \/ \E u \in DOMAIN SetDeclarations, v \in Values : SetUniform(u - 1, <<v>>)

GpuSpec == GpuInit /\ [][GpuNext]_vars

\* ================================================================ claims
\* the chains whose closure is stored and registered with the host
Live == {c \in DOMAIN chains : chains[c].scheduled}

\* this step is one run of the closure of chain Head(frame)
TickStep == frame # <<>> /\ frame' = Tail(frame)

\* the last handler was a tick that took the Rendering arm
Drew == lastOp.op = "tick" /\ lastOp.branch = Rendering

\* the renderer functions a tick called, in order
Fns(calls) == [i \in DOMAIN calls |-> calls[i].fn]

\* the RenderData of the render call of the last rendering tick
DrawData == lastOp.calls[Len(lastOp.calls)].data

\* C1: under any interleaving of prop changes, component renders and
\* animation-frame ticks, at most one self-rescheduling callback chain of
\* the canvas is live at any time.
C1_SingleLiveChain == Cardinality(Live) <= 1

\* C2: once a tick has observed Finished, setting the state back restarts
\* from a fresh state: the first rendering tick of the restarted loop has
\* initial_render = TRUE and calls initial_render_state again.
C2_RestartIsFresh ==
    (Drew /\ lastOp.first_draw /\ lastOp.restarted)
        => /\ Fns(lastOp.calls) = <<"initial_render_state", "render">>
           /\ DrawData.initial_render

\* C3: while render_loop_state is Paused a tick reschedules itself, calls
\* neither initial_render_state nor render and leaves render_state,
\* render_input_changed and last_time unchanged; a change back to Rendering
\* initiates no loop, and the same chain draws on its next tick.
C3_PausedTickIdles ==
    [][/\ (TickStep /\ state.render_loop_state = Paused)
            => /\ chains'[Head(frame)].cb /\ chains'[Head(frame)].scheduled
               /\ chains'[Head(frame)].last_time = chains[Head(frame)].last_time
               /\ Len(chains') = Len(chains)
               /\ lastOp'.calls = <<>>
               /\ state' = state
       /\ (frame = <<>> /\ props.render_loop_state = Paused
              /\ props'.render_loop_state = Rendering)
            => /\ initiate_render_loop' = initiate_render_loop
               /\ chains' = chains
               /\ state'.render_loop_state = Rendering
       /\ (TickStep /\ state.render_loop_state = Rendering
              /\ chains[Head(frame)].idled)
            => /\ lastOp'.chain = Head(frame)
               /\ lastOp'.calls # <<>>
               /\ lastOp'.calls[Len(lastOp'.calls)].fn = "render"
               /\ Len(chains') = Len(chains)
      ]_vars

\* C3 witness: the only chain ever initiated draws again, after Paused
\* ticks, on the render_state it had before
C3_Witness ==
    /\ Drew /\ lastOp.after_idle
    /\ Len(chains) = 1
    /\ ~DrawData.initial_render

\* C4: a tick that observes Finished drops the scheduling closure, calls
\* neither render nor initial_render_state, does not reschedule itself, and
\* no later tick of that chain ever runs.
C4_FinishedTickEndsChain ==
    [][/\ (TickStep /\ state.render_loop_state = Finished)
            => /\ ~chains'[Head(frame)].cb
               /\ ~chains'[Head(frame)].scheduled
               /\ lastOp'.calls = <<>>
               /\ state' = state
       /\ \A c \in DOMAIN chains :
            ~chains[c].scheduled
                => /\ ~chains'[c].scheduled /\ ~chains'[c].cb
                   /\ \A i \in DOMAIN frame : frame[i] # c
                   /\ \A i \in DOMAIN frame' : frame'[i] # c
      ]_vars

\* C4 witness: a chain has observed Finished, and a later animation frame
\* runs the tick of another chain
C4_Witness ==
    /\ \E c \in DOMAIN chains : ~chains[c].scheduled
    /\ lastOp.op = "tick"
    /\ chains[lastOp.chain].scheduled

\* C5: the chain that was live when the desired state was set to Finished
\* performs no render afterwards, even if the state is set back to Rendering
\* or Paused before the chain's next tick.
C5_FinishedIsIrreversible == ~(Drew /\ lastOp.cancelled)

\* C6: a chain is initiated exactly at mount with Rendering or Paused and on
\* the component render following a prop change from Finished to another
\* state; a canvas mounted with Finished schedules nothing until then, and
\* Rendering <-> Paused or width/height changes never initiate a chain.
C6_InitiationCases ==
    [][/\ Len(chains') # Len(chains)
            => /\ Len(chains') = Len(chains) + 1
               /\ render_pending /\ ~render_pending'
               /\ hCause \in {"mount", "restart"}
       /\ (mounted' /\ render_pending /\ ~render_pending')
            => Len(chains') = Len(chains) + (IF hCause = "none" THEN 0 ELSE 1)
       /\ frame' # <<>> => \A i \in DOMAIN frame' : frame'[i] \in DOMAIN chains'
      ]_vars

\* C6 witness: a second chain, initiated by the render that followed a
\* change away from Finished, next to a canvas whose size props were changed
C6_Witness ==
    /\ Len(chains) = 2
    /\ chains[2].scheduled
    /\ props.width # "100%"
    /\ ~render_pending

\* C7: after render_input is replaced, exactly the first tick that renders
\* observes input_changed = TRUE (Paused ticks in between do not consume
\* it); every later rendering tick observes FALSE until the next change.
C7_InputChangedOnce ==
    [][(TickStep /\ state.render_loop_state = Rendering)
            => /\ lastOp'.calls # <<>>
               /\ \A i \in DOMAIN lastOp'.calls :
                     lastOp'.calls[i].data.input_changed = hInputPending
               /\ ~state'.render_input_changed
      ]_vars

\* C7 witness: a tick resumes after Paused ticks and observes the change
C7_Witness ==
    /\ Drew /\ lastOp.after_idle
    /\ DrawData.input_changed
    /\ ~state.render_input_changed

\* C8: replacing the renderer prop by an unequal value discards
\* render_state, so the very next rendering tick has initial_render = TRUE
\* and calls the new renderer's initial_render_state before render.
C8_RendererSwapResets ==
    [][/\ (frame = <<>> /\ mounted' /\ props'.renderer # props.renderer)
            => /\ state'.render_state = None
               /\ state'.renderer = props'.renderer
       /\ (TickStep /\ state.render_loop_state = Rendering /\ hSwap # "none")
            => /\ Fns(lastOp'.calls) = <<"initial_render_state", "render">>
               /\ \A i \in DOMAIN lastOp'.calls :
                     /\ lastOp'.calls[i].renderer = props.renderer
                     /\ lastOp'.calls[i].data.initial_render
               /\ Unwrap(state'.render_state).by = props.renderer
      ]_vars

\* C8 witness: the swap discarded a present render_state mid-loop and the
\* next rendering tick of the same chain rebuilt it
C8_Witness ==
    /\ Drew /\ ~lastOp.first_draw
    /\ lastOp.swap = "discarded"
    /\ DrawData.initial_render

\* a change of the render_input prop alone
InputOnlyChange ==
    /\ frame = <<>> /\ mounted'
    /\ props'.render_input # props.render_input
    /\ props' = [props EXCEPT !.render_input = props'.render_input]

\* what C9 says of the change itself: render_input is replaced, the flag is
\* set, and the rest of the shared state is left alone
InputChangeKeepsRest ==
    InputOnlyChange
        => /\ state' = [state EXCEPT !.render_input = props'.render_input,
                                     !.render_input_changed = TRUE]
           /\ chains' = chains
           /\ initiate_render_loop' = initiate_render_loop

\* C9 as stated: a render_input change (renderer unchanged) replaces
\* render_input and sets the flag, leaves render_state, renderer,
\* render_loop_state and mouse_data unchanged, and the next rendering tick
\* does not call initial_render_state.
C9_InputChangeNoInit ==
    [][/\ InputChangeKeepsRest
       /\ (TickStep /\ state.render_loop_state = Rendering /\ hInput # "none")
            => Fns(lastOp'.calls) = <<"render">>
      ]_vars

\* C9 amended: as C9, but the next rendering tick does not call
\* initial_render_state provided a render_state was present when the input
\* changed (an absent render_state stays absent, and that tick builds it).
C9_InputChangeKeepsState ==
    [][/\ InputChangeKeepsRest
       /\ (TickStep /\ state.render_loop_state = Rendering)
            => /\ hInput = "present" => Fns(lastOp'.calls) = <<"render">>
               /\ hInput = "absent"
                    => Fns(lastOp'.calls) = <<"initial_render_state", "render">>
      ]_vars

\* C9 witness: a tick draws with the state kept across an input change,
\* while the pointer state is not the default one
C9_Witness ==
    /\ Drew /\ DrawData.input_changed
    /\ ~DrawData.initial_render
    /\ DrawData.mouse_data # MouseDataDefault

\* C10: mounted in Rendering and run for N rendering ticks with no prop
\* change, initial_render_state is called exactly once, on tick 0 and before
\* that tick's render with the same RenderData; render is called exactly
\* once per tick; initial_render holds on tick 0 only; the frame counter
\* written by render reads N - 1.
C10_UndisturbedRun ==
    hRun >= 0 =>
        /\ hRun = 0 <=> state.render_state = None
        /\ hRun > 0 =>
            /\ Unwrap(state.render_state).frames = hRun
            /\ Unwrap(state.render_state).frame = hRun - 1
        /\ (hRun > 0 /\ lastOp.op = "tick") =>
            /\ lastOp.branch = Rendering
            /\ Fns(lastOp.calls) = IF hRun = 1
                                   THEN <<"initial_render_state", "render">>
                                   ELSE <<"render">>
            /\ \A i \in DOMAIN lastOp.calls :
                  /\ lastOp.calls[i].data = DrawData
                  /\ lastOp.calls[i].data.initial_render = (hRun = 1)

\* C10 witness: five ticks were run and the counter reads 4
C10_Witness ==
    /\ hRun = 5
    /\ lastOp.op = "tick"
    /\ Unwrap(state.render_state).frame = 4

\* C11: destroying the component sets render_loop_state to Finished; from
\* then on, while the host keeps delivering animation frames, no renderer
\* call is made and every live chain eventually terminates, for good.
C11_DestroyEndsChains ==
    /\ [](~mounted => /\ state.render_loop_state = Finished
                      /\ lastOp.calls = <<>>)
    /\ [][~mounted => Live' \subseteq Live]_vars
    /\ (~mounted ~> Live = {})

\* C11 witness: the component was destroyed while a chain that had drawn
\* was live, and that chain's next tick observed Finished and ended it
C11_Witness ==
    /\ ~mounted
    /\ lastOp.op = "tick" /\ lastOp.branch = Finished
    /\ state.render_state # None
    /\ Live = {}

\* C12: on the first rendering tick after a Paused period, delta_time is
\* that tick's time minus the time of the last tick of the same chain that
\* drew: the Paused ticks in between do not move the reference time.
C12_DeltaSinceLastDraw ==
    [][(TickStep /\ state.render_loop_state = Rendering
           /\ chains[Head(frame)].idled /\ chains[Head(frame)].drew_at # None)
         => /\ lastOp'.calls # <<>>
            /\ \A i \in DOMAIN lastOp'.calls :
                  /\ lastOp'.calls[i].data.time = now
                  /\ lastOp'.calls[i].data.delta_time
                        = now - Unwrap(chains[Head(frame)].drew_at)
      ]_vars

\* C12 witness: a chain drew, idled through Paused ticks and draws again
\* in a later animation frame, with a delta_time that spans the pause
C12_Witness ==
    /\ Drew /\ lastOp.after_idle /\ ~lastOp.first_draw
    /\ DrawData.time = MaxTime
    /\ DrawData.delta_time = MaxTime

\* C13: the state lock is never held across a suspension point: every tick,
\* in each of its three arms, releases it before it reschedules itself or
\* returns, and every pointer handler, changed and destroy release it
\* before they return.
C13_NoLockAcrossSuspension == ~suspended_locked

\* C13 witness: pointer handlers, changed, rendering ticks, destroy and a
\* tick in the Finished arm have all run
C13_Witness ==
    /\ ~mounted
    /\ lastOp.op = "tick" /\ lastOp.branch = Finished
    /\ state.mouse_data.position # None
    /\ state.render_state # None
    /\ props.render_loop_state = Paused

\* the closure the canvas element runs for an event of the given type
ApplyEvent(md, event) ==
    CASE event.type = "mousedown" -> MouseDown(md, event.buttons)
      [] event.type = "mouseup" -> MouseUp(md, event.buttons)
      [] event.type = "mousemove" -> MouseMove(md, event.offset)
      [] event.type = "mouseleave" -> MouseLeave(md)

\* the pointer state after the events were handled one by one, in order
RECURSIVE Replay(_, _)
Replay(events, md) ==
    IF events = <<>> THEN md
    ELSE Replay(Tail(events), ApplyEvent(md, Head(events)))

\* C14: the mouse_data of a rendering tick's RenderData is the result of
\* applying, in delivery order, every pointer event delivered before the
\* tick; events are not queued, so after several events between two ticks
\* the tick sees the one resulting value, and the tick does not consume it.
C14_PointerSnapshot ==
    hLog =>
        /\ state.mouse_data = Replay(hEvents, MouseDataDefault)
        /\ Drew => \A i \in DOMAIN lastOp.calls :
                      lastOp.calls[i].data.mouse_data
                          = Replay(hEvents, MouseDataDefault)

\* C14 witness: a chain that had drawn before draws again after several
\* pointer events were delivered since its last draw, among them a press
\* of the secondary button and a move
C14_Witness ==
    /\ hLog /\ Drew /\ ~lastOp.first_draw
    /\ lastOp.new_events >= 2
    /\ DrawData.mouse_data.secondary_button
    /\ ~DrawData.mouse_data.primary_button
    /\ DrawData.mouse_data.position = Some(<<AsU32(3), AsU32(4)>>)

\* the last operation of the compute program was a compute() that returned
Computed == gop.op = "compute" /\ gop.result = "ok"

\* C15: after compute returns, for a program with any number of input
\* textures, no GPU binding made by the call survives: no texture is bound
\* on any texture unit, and no framebuffer, array buffer or program is
\* bound.
C15_ComputeLeavesNothingBound ==
    Computed
        => /\ \A u \in Units : gl.texture_2d[u] = None
           /\ gl.framebuffer = None
           /\ gl.array_buffer = None
           /\ gl.program = None

\* the buffer has exactly width * height * 4 elements (compared without
\* forming the product, which need not fit the integers of the checker)
ExactLength(c, data) ==
    /\ Len(data) % 4 = 0
    /\ Len(data) \div 4 = c.width * c.height

\* C16: write_input called with a buffer whose length differs from
\* width*height*4 fails the contract check before any GPU call is made, so
\* no input texture is modified, truncated or padded.
C16_WrongLengthFailsFirst ==
    [][(/\ gop' # gop
        /\ gop'.op = "write_input"
        /\ ~ExactLength(Unwrap(cp), gop'.arg[2]))
            => /\ gop'.result = "panic"
               /\ gop'.calls = <<>>
               /\ gl' = gl
      ]_vars

\* the texels a texture holds, none for a texture without an image
Held(texture) ==
    IF gl.images[texture] = None THEN <<>> ELSE Unwrap(gl.images[texture])

\* C17: for a program whose kernel is the identity on input 0, after
\* write_input(0, d) and any number k >= 1 of repetitions of compute()
\* followed by copy_output_to_input(0), the output texture and input
\* texture 0 both hold exactly d.
C17_PingPongIdentity ==
    (/\ cp # None
     /\ gl.kernel = "identity"
     /\ hPing # None
     /\ Unwrap(hPing).phase = "copied"
     /\ Unwrap(hPing).k >= 1)
        => /\ Held(OutputTexture) = Unwrap(hPing).d
           /\ Held(InputTexture(0)) = Unwrap(hPing).d

\* C17 witness: MaxRounds rounds of compute and copy_output_to_input(0)
\* after a write of four texels that are not the initial zeros, in a
\* program with a second input
C17_Witness ==
    /\ cp # None
    /\ gl.kernel = "identity"
    /\ Len(Unwrap(cp).inputs) = 2
    /\ hPing # None
    /\ Unwrap(hPing).phase = "copied"
    /\ Unwrap(hPing).k = MaxRounds
    /\ Unwrap(hPing).d = <<0, 1, 1, 0>>
    /\ gop.op = "copy_output_to_input"
    /\ Held(OutputTexture) = <<0, 1, 1, 0>>

\* the name of the user uniform at an index of the set
UserName(i) == SetDeclarations[i].name

\* C18: set_uniform changes only the CPU-side value of the indexed uniform
\* and makes no GPU call; the GPU-side value of every user uniform changes
\* only during compute(), and after each compute() it equals the value of
\* the last set_uniform for that index before the call (or the declared
\* initial value if it was never set).
C18_UniformsPushedByCompute ==
    [][cp # None =>
        /\ (gop' # gop /\ gop'.op = "set_uniform")
              => /\ gl' = gl
                 /\ gop'.calls = <<>>
                 /\ cp' = Some([Unwrap(cp) EXCEPT
                                   !.uniforms[gop'.arg[1] + 1].data = gop'.arg[2]])
        /\ \A i \in DOMAIN SetDeclarations :
              /\ (/\ UserName(i) \in DOMAIN gl.uniforms
                  /\ gl'.uniforms[UserName(i)] # gl.uniforms[UserName(i)])
                    => gop'.op = "compute"
              /\ (/\ gop'.op = "compute"
                  /\ UserName(i) \in DOMAIN gl'.uniforms)
                    => /\ Unwrap(cp').uniforms[i].location = Some(UserName(i))
                       /\ gl'.uniforms[UserName(i)] = hSet'[i]
                       /\ hSet' = hSet
      ]_vars

\* C18 witness: a compute pushed a value set for index 0 and the declared
\* initial value of index 1, after the value of index 0 had been set
\* without reaching the GPU
C18_Witness ==
    /\ Computed
    /\ gl.kernel = "fill"
    /\ hSet = <<<<2>>, <<0>>>>
    /\ gl.uniforms["u_a"] = <<2>>
    /\ gl.uniforms["u_b"] = <<0>>
    /\ Held(OutputTexture) = <<2, 2, 2, 2>>

\* every Uniform the program holds: the input samplers, u_dimensions and
\* the user set
AllUniforms(c) ==
    {c.inputs[i].uniform : i \in DOMAIN c.inputs}
        \cup {c.dimensions_uniform}
        \cup {c.uniforms[i] : i \in DOMAIN c.uniforms}

\* the linked program does not declare the name
Undeclared(name) == name \notin Range(ActiveUniforms(gl.kernel))

\* the calls of the last operation that write the uniform of that name
WritesTo(name) ==
    {j \in DOMAIN gop.calls :
        gop.calls[j].fn \in UniformFns /\ gop.calls[j].arg[1] = name}

\* C19: Uniform::new for a name the program does not declare does not
\* fail: it returns a uniform with location absent, and every later apply
\* on that uniform makes no GPU write and does not fail, while set_data
\* still updates the held value.
C19_UndeclaredIsDisabled ==
    /\ gop.op \in {"new", "compute", "set_uniform"} => gop.result = "ok"
    /\ cp # None =>
          /\ \A u \in AllUniforms(Unwrap(cp)) :
                Undeclared(u.name)
                    => /\ u.location = None
                       /\ WritesTo(u.name) = {}
                       /\ u.name \notin DOMAIN gl.uniforms
          /\ gop.op = "set_uniform"
                => Unwrap(cp).uniforms[gop.arg[1] + 1].data = gop.arg[2]

\* C19 witness: a compute applied a user uniform the identity kernel does
\* not declare, after set_uniform had replaced its declared value
C19_Witness ==
    /\ Computed
    /\ gl.kernel = "identity"
    /\ Undeclared("u_a")
    /\ Unwrap(cp).uniforms[1].location = None
    /\ Unwrap(cp).uniforms[1].data = <<2>>
    /\ \E j \in DOMAIN gop.log :
          gop.log[j].level = "warn" /\ gop.log[j].name = "u_a"

\* the names ComputeProgram::new resolves with Uniform::new, in order
NewNames(inputs) ==
    [i \in 1..inputs |-> InputName(i - 1)]
        \o <<"u_dimensions">>
        \o [i \in DOMAIN SetDeclarations |-> UserName(i)]

\* the names among them that the linked program does not declare, in order
Unresolved(inputs) ==
    SelectSeq(NewNames(inputs), Undeclared)

\* C20: Uniform::new panics if the uniform name cannot be resolved in the
\* given program.
C20_UnresolvedNamePanics ==
    (gop.op = "new" /\ Unresolved(gop.arg[3]) # <<>>)
        => gop.result = "panic"

\* ======================================================================
\* The expansion of uniform_set! (src/src/webgl/compute.rs): the
\* @count_constants rules that give every entry its index constant.
\* ======================================================================
\* largest number of entries of a uniform_set! schema
MaxEntries == 4

\* the identifiers an entry may be named with
Idents == {"u_" \o ToString(i) : i \in 1..MaxEntries}

\* the schemas: up to MaxEntries entries with distinct names (a struct has
\* no two fields of one name)
Schemas ==
    UNION {{s \in [1..n -> Idents] : \A i, j \in 1..n : s[i] = s[j] => i = j}
              : n \in 0..MaxEntries}

\* mutant of ToOne: an identifier counts twice
ToOne_Two(id) == 2

\* (@to_one $id) => 1
ToOne(id) == 1

\* (@to_number $($id),*) => $( uniform_set!(@to_one $id) + )* 0
RECURSIVE ToNumber(_)
ToNumber(counted) ==
    IF counted = <<>> THEN 0 ELSE ToOne(Head(counted)) + ToNumber(Tail(counted))

\* uniform_set!(@count_constants $counted | $rest)
CountCall(counted, rest) == [counted |-> counted, rest |-> rest]

\* pub const $name: u32 = value
Const(name, value) == [name |-> name, value |-> value]

\* one expansion of @count_constants: the first rule that matches the
\* tokens, the constant it emits and the invocation it leaves.  The rules
\* are tried in source order: `|` alone; `| $first, $rest..` with at least
\* one identifier after the comma; `| $last`.
CountConstants(call) ==
    IF call.counted = <<>> /\ call.rest = <<>>
    THEN [rule |-> "empty", consts |-> <<>>, next |-> None]
    ELSE IF Len(call.rest) >= 2
    THEN [rule |-> "first",
          consts |-> <<Const(Head(call.rest), ToNumber(call.counted))>>,
          next |-> Some(CountCall(Append(call.counted, Head(call.rest)),
                                  Tail(call.rest)))]
    ELSE IF Len(call.rest) = 1
    THEN [rule |-> "last",
          consts |-> <<Const(Head(call.rest), ToNumber(call.counted))>>,
          next |-> None]
    ELSE [rule |-> "none", consts |-> <<>>, next |-> None]

\* the macro is invoked with a schema: the main rule leaves
\* uniform_set!(@count_constants | $($location),*)
MacroInit ==
    /\ NoCanvas
    /\ NoLog
    /\ NoProgram
    /\ mSchema \in Schemas
    /\ mCall = Some(CountCall(<<>>, mSchema))
    /\ mConsts = <<>>
    /\ route = "NotFound"
    /\ sections = <<>>
    /\ hAdded = <<>>
    /\ clock_input = <<>>
    /\ clock_state = <<>>
    /\ clock_call = <<>>
    /\ clock_input_changed = FALSE
    /\ clock_canvas = <<300, 150>>
    /\ hClockChanges = 0

\* the compiler expands the pending invocation
Expand ==
    /\ mCall # None
    /\ LET e == CountConstants(Unwrap(mCall)) IN
           /\ e.rule # "none"
           /\ mConsts' = mConsts \o e.consts
           /\ mCall' = e.next
    /\ UNCHANGED <<mSchema, route, sections, hAdded, kvars, cvars, pvars, gvars>>

MacroNext == Expand

MacroSpec == MacroInit /\ [][MacroNext]_vars

\* C21: for every uniform_set! schema of N >= 0 entries, the index
\* constants generated by the macro's counting rules are exactly 0..N-1,
\* each used exactly once, and the i-th declared entry gets index i
\* (declaration order).
C21_IndicesContiguous ==
    /\ mSchema # <<>> /\ mCall # None
          => CountConstants(Unwrap(mCall)).rule \in {"first", "last"}
    /\ \A i \in DOMAIN mConsts : mConsts[i] = Const(mSchema[i], i - 1)
    /\ mCall = None => Len(mConsts) = Len(mSchema)

\* C21 witness: a schema of MaxEntries entries is expanded to the end
C21_Witness ==
    /\ Len(mSchema) = MaxEntries
    /\ mCall = None
    /\ mConsts[MaxEntries] = Const(mSchema[MaxEntries], MaxEntries - 1)
    /\ {mConsts[i].value : i \in DOMAIN mConsts} = 0..(MaxEntries - 1)

\* ======================================================================
\* Renderer failures.  CanvasRenderer::render and initial_render_state
\* return no Result: a renderer fails by panicking (the unwrap of
\* compile_shader or create_program, the assert of write_input), inside
\* the Rendering arm of the closure, under the guard of the state lock.
\* ======================================================================
\* what a panic does depends on the build: it aborts the call into the
\* module (the guard is never dropped and the mutex stays locked), or it
\* unwinds (the guard is dropped and poisons the mutex)
Builds == {"abort", "unwind"}

\* the mutex after a panic under its guard
MutexAfterPanic(build) == IF build = "abort" THEN "locked" ELSE "poisoned"

\* the renderer functions the Rendering arm calls on this state
CalledFns(st) ==
    IF st.render_state = None THEN {"initial_render_state", "render"}
    ELSE {"render"}

\* mutant of FailedState: the state is stored before it is built
FailedState_Inserted(st, render_data, fn) ==
    [st EXCEPT !.render_state = Some(GetOrInsertState(st, render_data))]

\* the shared state a panic of renderer function fn leaves:
\* get_or_insert_with stores the state once initial_render_state has
\* returned it; the lines after render are not reached
FailedState(st, render_data, fn) ==
    IF fn = "render"
    THEN [st EXCEPT !.render_state = Some(GetOrInsertState(st, render_data))]
    ELSE st

\* the renderer calls made up to the one that panicked
FailedCalls(st, render_data, fn) ==
    IF fn = "initial_render_state"
    THEN <<Head(TickCalls(st, render_data))>>
    ELSE TickCalls(st, render_data)

\* lastOp after a handler that panicked
PanicOp(op, c, calls) ==
    [NoOp EXCEPT !.op = op, !.chain = c, !.result = "panic", !.calls = calls]

\* one run of the closure in which renderer function fn panics: the
\* reschedule after the match is not reached, cb keeps the closure
TickRendererPanics(client, fn, build) ==
    /\ frame # <<>>
    /\ mutex = "unlocked"
    /\ state.render_loop_state = Rendering
    /\ fn \in CalledFns(state)
    /\ frame' = Tail(frame)
    /\ LET c == Head(frame)
           rd == MakeRenderData(state, canvas, client, now, chains[c].last_time)
           sz == resize_to_display_size(canvas, client)
       IN  /\ canvas' = <<sz[1], sz[2]>>
           /\ state' = FailedState(state, rd, fn)
           /\ chains' = [chains EXCEPT ![c].scheduled = FALSE]
           /\ lastOp' = [PanicOp("tick", c, FailedCalls(state, rd, fn))
                            EXCEPT !.branch = Rendering]
    /\ mutex' = MutexAfterPanic(build)
    /\ hFailed' = fn
    /\ hRun' = -1
    /\ suspended_locked' = (suspended_locked \/ build = "abort")
    /\ UNCHANGED <<props, initiate_render_loop, render_pending, mounted, now,
                   hInputPending, hSwap, hInput, hCause, pvars, gvars, ovars>>

\* one run of a closure after the panic: rendering_state.lock().unwrap()
\* panics before the match
TickLockPanics ==
    /\ frame # <<>>
    /\ mutex # "unlocked"
    /\ frame' = Tail(frame)
    /\ chains' = [chains EXCEPT ![Head(frame)].scheduled = FALSE]
    /\ lastOp' = PanicOp("tick", Head(frame), <<>>)
    /\ UNCHANGED <<props, state, initiate_render_loop, render_pending, mounted,
                   canvas, now, hInputPending, hSwap, hInput, hCause, hRun,
                   suspended_locked, mutex, hFailed, pvars, gvars, ovars>>

\* a pointer closure after the panic: its first lock().unwrap() panics
PointerLockPanics(event) ==
    /\ mounted
    /\ ~render_pending
    /\ frame = <<>>
    /\ Locks(PointerLocks(event))
    /\ mutex # "unlocked"
    /\ lastOp' = PanicOp(event.type, 0, <<>>)
    /\ UNCHANGED <<props, state, initiate_render_loop, render_pending, mounted,
                   chains, canvas, now, frame, hInputPending, hSwap, hInput,
                   hCause, hRun, suspended_locked, mutex, hFailed, pvars, gvars,
                   ovars>>

\* Canvas::changed after the panic: the component holds the new props,
\* the first lock().unwrap() panics before anything is updated
ChangedLockPanics(new_props) ==
    /\ mounted
    /\ ~render_pending
    /\ frame = <<>>
    /\ new_props # props
    /\ Locks(ChangedLocks(props, new_props))
    /\ mutex # "unlocked"
    /\ props' = new_props
    /\ lastOp' = PanicOp("changed", 0, <<>>)
    /\ hRun' = -1
    /\ UNCHANGED <<state, initiate_render_loop, render_pending, mounted,
                   chains, canvas, now, frame, hInputPending, hSwap, hInput,
                   hCause, suspended_locked, mutex, hFailed, pvars, gvars,
                   ovars>>

\* Canvas::destroy after the panic: lock().unwrap() panics, Finished is
\* not written
DestroyLockPanics ==
    /\ mounted
    /\ ~render_pending
    /\ frame = <<>>
    /\ mutex # "unlocked"
    /\ mounted' = FALSE
    /\ lastOp' = PanicOp("destroy", 0, <<>>)
    /\ hRun' = -1
    /\ UNCHANGED <<props, state, initiate_render_loop, render_pending, chains,
                   canvas, now, frame, hInputPending, hSwap, hInput, hCause,
                   suspended_locked, mutex, hFailed, pvars, gvars, ovars>>

\* the props of the runs with failures: one renderer, one size
FailProps ==
    {p \in PropsSet : p.renderer = "r1" /\ p.width = "100%" /\ p.height = "100%"}

FailInit ==
    /\ CanvasInit
    /\ props \in FailProps
    /\ NoLog
    /\ NoProgram
    /\ NoOther

FailNext ==
    \/ \E b \in ButtonMasks : OnMouseDown(b)
    \/ \E b \in ButtonMasks : OnMouseUp(b)
    \/ \E o \in Offsets : OnMouseMove(o)
    \/ OnMouseLeave
    \/ Rendered
    \/ \E p \in FailProps : Changed(p)
    \/ Destroy
    \/ BeginFrame(now)
    \/ \E cl \in ClientSizes : Tick(cl)
    \/ \E cl \in ClientSizes, fn \in {"initial_render_state", "render"},
          b \in Builds : TickRendererPanics(cl, fn, b)
    \/ TickLockPanics
    \/ \E b \in ButtonMasks :
          PointerLockPanics(MouseEvent("mousedown", b, <<0, 0>>))
    \/ \E b \in ButtonMasks :
          PointerLockPanics(MouseEvent("mouseup", b, <<0, 0>>))
    \/ \E o \in Offsets : PointerLockPanics(MouseEvent("mousemove", 0, o))
    \/ PointerLockPanics(MouseEvent("mouseleave", 0, <<0, 0>>))
    \/ \E p \in FailProps : ChangedLockPanics(p)
    \/ DestroyLockPanics

FailSpec == FailInit /\ [][FailNext]_vars

\* C22: if shader compilation or program linking fails during a renderer's
\* initial_render_state, render-state construction fails: render_state
\* stays absent and render is never called with a state built from an
\* invalid program, on that tick or on any later one.
C22_FailedInitLeavesNoState ==
    hFailed = "initial_render_state"
        => /\ state.render_state = None
           /\ \A i \in DOMAIN lastOp.calls : lastOp.calls[i].fn # "render"
           /\ lastOp.op = "tick" => lastOp.result = "panic"

\* C22 witness: initial_render_state panicked in the tick of one chain and
\* the tick of a second chain has run since
C22_Witness ==
    /\ hFailed = "initial_render_state"
    /\ lastOp.op = "tick" /\ lastOp.chain = 2
    /\ lastOp.calls = <<>>
    /\ state.render_loop_state = Rendering
    /\ state.render_state = None

\* C23: when a renderer's render (or initial_render_state) call fails
\* during a tick, the loop handles it: the chain stops rescheduling and the
\* loop is moved to an effective Finished state, so no later tick of that
\* canvas calls the renderer again.
C23_FailureFinishesLoop ==
    hFailed # "none"
        => /\ state.render_loop_state = Finished
           /\ \A c \in DOMAIN chains :
                 (chains[c].scheduled \/ chains[c].cb) => c \in Range(frame)
           /\ (lastOp.op = "tick" /\ lastOp.branch # Rendering)
                 => lastOp.calls = <<>> /\ lastOp.result = "ok"

\* C24: a renderer failure during a tick on one canvas stays isolated:
\* afterwards the UI-side handlers of that canvas (pointer events, prop
\* changes, destroy) can still acquire and update the shared
\* CanvasRenderState without failing.
C24_HandlersSurviveFailure ==
    (hFailed # "none" /\ lastOp.op # "tick") => lastOp.result = "ok"

\* this step is the handling of one recorded pointer event
PointerStep == hLog /\ Len(hEvents') = Len(hEvents) + 1

\* the event a pointer step handles
Handled == hEvents'[Len(hEvents')]

\* the button of a flag is in the event's MouseEvent.buttons mask
InMask(buttons, flag) ==
    IF flag = "primary_button" THEN buttons % 2 = 1
    ELSE (buttons \div 2) % 2 = 1

\* C26: each pointer handler changes only its own part of mouse_data:
\* mousedown only sets to true the flags of buttons present in the event's
\* button mask (never clears one), mouseup only clears the flags of buttons
\* absent from the mask (never sets one), mousemove only sets position to
\* Some, and mouseleave only sets position to None and leaves both button
\* flags unchanged; no pointer handler touches render_state, render_input,
\* the input-changed flag or render_loop_state.
C26_PointerHandlersOwnPart ==
    [][PointerStep =>
        LET md == state.mouse_data
            nd == state'.mouse_data
            e == Handled
        IN  /\ state' = [state EXCEPT !.mouse_data = nd]
            /\ chains' = chains /\ props' = props
            /\ e.type = "mousedown" =>
                  /\ nd.position = md.position
                  /\ \A f \in {"primary_button", "secondary_button"} :
                        nd[f] = (md[f] \/ InMask(e.buttons, f))
            /\ e.type = "mouseup" =>
                  /\ nd.position = md.position
                  /\ \A f \in {"primary_button", "secondary_button"} :
                        nd[f] = (md[f] /\ InMask(e.buttons, f))
            /\ e.type = "mousemove" =>
                  /\ nd.position # None
                  /\ nd = [md EXCEPT !.position = nd.position]
            /\ e.type = "mouseleave" => nd = [md EXCEPT !.position = None]
      ]_vars

\* C26 witness: both buttons were pressed in one event and the secondary
\* one was released in the next, with a render_state present
C26_Witness ==
    /\ hLog
    /\ Len(hEvents) = 2
    /\ hEvents[1].type = "mousedown" /\ hEvents[1].buttons = 3
    /\ hEvents[2].type = "mouseup" /\ hEvents[2].buttons = 1
    /\ state.mouse_data.primary_button
    /\ ~state.mouse_data.secondary_button
    /\ state.render_state # None

\* C28: the draw-time reference is per chain, not per canvas: the first
\* rendering tick of every newly initiated chain, including one
\* re-initiated after Finished, reports delta_time equal to that tick's
\* full timestamp (time - 0) rather than the time elapsed since the canvas
\* last drew; and on all ticks delta_time = time - last_time never
\* underflows when the host's timestamps are non-decreasing.
C28_DeltaPerChain ==
    [][(TickStep /\ state.render_loop_state = Rendering)
            => LET c == Head(frame) IN
               /\ lastOp'.calls # <<>>
               /\ \A i \in DOMAIN lastOp'.calls :
                     LET d == lastOp'.calls[i].data IN
                     /\ d.time = now
                     /\ d.delta_time = d.time - chains[c].last_time
                     /\ d.delta_time >= 0 /\ d.delta_time <= d.time
                     /\ ~chains[c].drawn => d.delta_time = d.time
               /\ chains'[c].last_time = now
      ]_vars

\* C28 witness: a chain initiated after Finished draws for the first time,
\* at the latest timestamp, on a render_state an earlier chain had drawn
\* on, and reports the full timestamp
C28_Witness ==
    /\ Drew /\ lastOp.first_draw /\ lastOp.restarted
    /\ lastOp.chain = 2
    /\ ~DrawData.initial_render
    /\ DrawData.time = MaxTime
    /\ DrawData.delta_time = MaxTime

\* C29: in every reachable state, a present render_state was created by
\* the renderer value currently stored in the shared state: under any
\* interleaving of renderer prop changes and ticks, render is never called
\* with a state produced by a different (unequal) renderer value.
C29_StateBuiltByStoredRenderer ==
    /\ state.render_state # None
          => Unwrap(state.render_state).by = state.renderer
    /\ Drew => \A i \in DOMAIN lastOp.calls :
                  /\ lastOp.calls[i].renderer = state.renderer
                  /\ lastOp.calls[i].renderer = Unwrap(state.render_state).by

\* C29 witness: the renderer prop was replaced while a render_state built
\* by the other renderer was present, and the next rendering tick has
\* drawn with the new renderer
C29_Witness ==
    /\ Drew
    /\ lastOp.swap = "discarded"
    /\ state.renderer = "r2"
    /\ Unwrap(state.render_state).by = "r2"
    /\ lastOp.calls[Len(lastOp.calls)].renderer = "r2"

\* ======================================================================
\* The navigation context of src/src/navigation.rs: the reducer.
\* ======================================================================
\* largest number of AddSection actions recorded per route
MaxAdded == 4

\* the routes (Route::Project left out); NotFound is the default one
Routes == {"Home", "About", "NotFound"}

\* SectionData values: PartialEq compares title, id and level
SectionDatas ==
    {[title |-> "Intro", id |-> "intro", level |-> 1],
     [title |-> "Intro", id |-> "intro", level |-> 2]}

\* parent_id: Option<AttrValue>
ParentIds == {None, Some("intro")}

\* mutant of AddSection: the pair is pushed whether present or not
AddSection_Always(secs, data, parent_id) == Append(secs, <<parent_id, data>>)

\* the AddSection arm of reduce
AddSection(secs, data, parent_id) ==
    LET val == <<parent_id, data>> IN
    IF val \in Range(secs) THEN secs ELSE Append(secs, val)

\* the SetRoute arm of reduce: <<route, sections>> afterwards
SetRoute(this_route, secs, new_route) ==
    IF this_route # new_route THEN <<new_route, <<>>>> ELSE <<this_route, secs>>

\* NavigationContext::default()
NavInit ==
    /\ NoCanvas
    /\ NoLog
    /\ NoProgram
    /\ mSchema = <<>>
    /\ mCall = <<>>
    /\ mConsts = <<>>
    /\ route = "NotFound"
    /\ sections = <<>>
    /\ hAdded = <<>>
    /\ clock_input = <<>>
    /\ clock_state = <<>>
    /\ clock_call = <<>>
    /\ clock_input_changed = FALSE
    /\ clock_canvas = <<300, 150>>
    /\ hClockChanges = 0

\* reduce(AddSection { data, parent_id })
ReduceAddSection(data, parent_id) ==
    /\ Len(hAdded) < MaxAdded
    /\ sections' = AddSection(sections, data, parent_id)
    /\ hAdded' = Append(hAdded, <<parent_id, data>>)
    /\ UNCHANGED <<route, mSchema, mCall, mConsts, kvars, cvars, pvars, gvars>>

\* reduce(SetRoute(route))
ReduceSetRoute(new_route) ==
    /\ route' = SetRoute(route, sections, new_route)[1]
    /\ sections' = SetRoute(route, sections, new_route)[2]
    /\ hAdded' = IF new_route # route THEN <<>> ELSE hAdded
    /\ UNCHANGED <<mSchema, mCall, mConsts, kvars, cvars, pvars, gvars>>

NavNext ==
    \/ \E d \in SectionDatas, p \in ParentIds : ReduceAddSection(d, p)
    \/ \E r \in Routes : ReduceSetRoute(r)

NavSpec == NavInit /\ [][NavNext]_vars

\* the elements of a sequence in order of first occurrence
RECURSIVE Distinct(_)
Distinct(seq) ==
    IF seq = <<>> THEN <<>>
    ELSE LET front == SubSeq(seq, 1, Len(seq) - 1)
             last == seq[Len(seq)]
         IN  IF last \in Range(front) THEN Distinct(front)
             ELSE Append(Distinct(front), last)

\* C30: after any sequence of NavigationContext actions, sections holds
\* exactly the distinct (parent_id, data) pairs added by AddSection since
\* the last SetRoute that changed the route, in first-insertion order with
\* no duplicates; SetRoute with the current route leaves route and sections
\* unchanged, and SetRoute with a different route empties sections.
C30_SectionsAreDistinctAdds ==
    /\ sections = Distinct(hAdded)
    /\ \A i, j \in DOMAIN sections : sections[i] = sections[j] => i = j
    /\ \A r \in Routes :
          SetRoute(route, sections, r)
              = IF r = route THEN <<route, sections>> ELSE <<r, <<>>>>

\* C30 witness: after a route change, a pair was added twice with another
\* pair in between
C30_Witness ==
    /\ route = "About"
    /\ Len(hAdded) = 3
    /\ hAdded[1] = hAdded[3] /\ hAdded[1] # hAdded[2]
    /\ sections = <<hAdded[1], hAdded[2]>>

\* ======================================================================
\* The fractal clock renderer of src/src/projects/fractal_clock/render.rs.
\* A texel is modelled by the pair of hand angles its value was derived
\* from: <<>> is the zero texel, <<h, m>> a texel derived from the two root
\* entries for hour angle h and minute angle m, <<-1>> a texel derived from
\* roots of another pair.  Angles are counted in units of
\* 360 / COMPLETE_TIME_ROTATION degrees.
\* ======================================================================
MAX_RECURSION_DEPTH == 16

COMPUTE_TEXTURE_RECURSION_WIDTH == 10

COMPUTE_TEXTURE_RECURSION_HEIGHT ==
    MAX_RECURSION_DEPTH - COMPUTE_TEXTURE_RECURSION_WIDTH + 1

COMPUTE_TEXTURE_WIDTH == 2^COMPUTE_TEXTURE_RECURSION_WIDTH

COMPUTE_TEXTURE_HEIGHT == 2^COMPUTE_TEXTURE_RECURSION_HEIGHT

COMPLETE_TIME_ROTATION == 12 * 60 * 60 * 10

ONE_HOUR_TIME_ROTATION == COMPLETE_TIME_ROTATION \div 12

\* the texels of the compute textures, as indices of a 1D array
Texels == 0..(COMPUTE_TEXTURE_WIDTH * COMPUTE_TEXTURE_HEIGHT - 1)

\* the number of elements of the vertex buffer
VertexCount == 2^(MAX_RECURSION_DEPTH + 2)

\* the frame times of the ticks
ClockTimes == {0, 1}

\* the displayed sizes of the canvas element: the default buffer size and
\* one that differs from it
ClockClientSizes == {<<300, 150>>, <<300, 151>>}

\* largest number of Canvas::changed calls in a behaviour
MaxClockChanges == 1

\* the inputs: every recursion depth, animated or not, with one of two
\* hour angles (0 and 90 degrees)
ClockInputs ==
    {[recursion_depth |-> d, animate |-> a, hour_angle |-> h,
      minute_angle |-> 0] :
        d \in 1..MAX_RECURSION_DEPTH, a \in BOOLEAN,
        h \in {0, COMPLETE_TIME_ROTATION \div 4}}

ZeroTexel == <<>>

MixedTexel == <<-1>>

\* the hand angles of a render call
Angles(input, time) ==
    IF input.animate
    THEN <<time % COMPLETE_TIME_ROTATION,
           (time % ONE_HOUR_TIME_ROTATION) * 12>>
    ELSE <<input.hour_angle, input.minute_angle>>

\* parent = i / 2 - 1 of the prefill loop, parentIndex of the shader
Parent(i) == (i \div 2) - 1

\* an entry computed from its parent's entry and the hands at angles u
Derive(u, parent) ==
    IF parent = u THEN u
    ELSE IF parent = ZeroTexel THEN ZeroTexel
    ELSE MixedTexel

\* a texture or buffer is kept as its runs of equal texels, in index order
Run(first, last, texel) == [first |-> first, last |-> last, texel |-> texel]

\* adjacent runs of the same texel are one run (the runs are contiguous)
Normalize(runs) ==
    LET starts == SelectSeq([k \in DOMAIN runs |-> k],
                            LAMBDA k : k = 1 \/ runs[k].texel # runs[k - 1].texel)
    IN  [j \in DOMAIN starts |->
            Run(runs[starts[j]].first,
                IF j < Len(starts) THEN runs[starts[j + 1]].first - 1
                ELSE runs[Len(runs)].last,
                runs[starts[j]].texel)]

\* the texel at index i
TexelAt(runs, i) ==
    LET k == CHOOSE k \in DOMAIN runs : runs[k].first <= i /\ i <= runs[k].last
    IN  runs[k].texel

\* the part of the runs at the indices first..last
Clip(runs, first, last) ==
    LET kept == SelectSeq(runs, LAMBDA r : r.first <= last /\ r.last >= first)
    IN  [k \in DOMAIN kept |->
            Run(IF kept[k].first < first THEN first ELSE kept[k].first,
                IF kept[k].last > last THEN last ELSE kept[k].last,
                kept[k].texel)]

\* vec![0.0; 4 * COMPUTE_TEXTURE_WIDTH * COMPUTE_TEXTURE_HEIGHT], and a
\* texture created without data
ZeroTexture ==
    <<Run(0, COMPUTE_TEXTURE_WIDTH * COMPUTE_TEXTURE_HEIGHT - 1, ZeroTexel)>>

\* the entry the prefill loop leaves at index i < COMPUTE_TEXTURE_WIDTH
RECURSIVE PrefillEntry(_, _)
PrefillEntry(u, i) ==
    IF i < 2 THEN u ELSE Derive(u, PrefillEntry(u, Parent(i)))

\* vertex_compute_input_buffer after the prefill: entries 0 and 1 are the
\* roots, entries 2..1023 are computed in ascending order from their
\* parents, the others are left alone
Prefill(buffer, u) ==
    Normalize([i \in 1..COMPUTE_TEXTURE_WIDTH |->
                  Run(i - 1, i - 1, PrefillEntry(u, i - 1))]
              \o Clip(buffer, COMPUTE_TEXTURE_WIDTH,
                      COMPUTE_TEXTURE_WIDTH * COMPUTE_TEXTURE_HEIGHT - 1))

\* the output texture of one compute pass over the input texture: texels 0
\* and 1 are the roots, texel i is derived from texel Parent(i) of the
\* input, so the texels derived from a run first..last of the input are
\* those at 2 * first + 2 .. 2 * last + 3
ComputePass(u, input_0) ==
    Normalize(<<Run(0, 1, u)>>
              \o Clip([k \in DOMAIN input_0 |->
                          Run(2 * input_0[k].first + 2, 2 * input_0[k].last + 3,
                              Derive(u, input_0[k].texel))],
                      2, COMPUTE_TEXTURE_WIDTH * COMPUTE_TEXTURE_HEIGHT - 1))

\* mutant of PassCount: the pass count without the + 1
PassCount_NoPlusOne(recursion_depth) ==
    IF recursion_depth > COMPUTE_TEXTURE_RECURSION_WIDTH
    THEN recursion_depth - COMPUTE_TEXTURE_RECURSION_WIDTH ELSE 0

\* recursion_depth.saturating_sub(COMPUTE_TEXTURE_RECURSION_WIDTH) + 1
PassCount(recursion_depth) ==
    (IF recursion_depth > COMPUTE_TEXTURE_RECURSION_WIDTH
     THEN recursion_depth - COMPUTE_TEXTURE_RECURSION_WIDTH ELSE 0) + 1

\* k rounds of compute and copy_output_to_input(0): <<input 0, output>>
RECURSIVE Passes(_, _, _, _)
Passes(u, input_0, output, k) ==
    IF k = 0 THEN <<input_0, output>>
    ELSE LET out == ComputePass(u, input_0) IN Passes(u, out, out, k - 1)

\* the draw_arrays count: 2 * 2 * (2_i32.pow(recursion_depth) - 1)
DrawCount(recursion_depth) == 2 * 2 * (2^recursion_depth - 1)

\* the texel the vertex shader reads for a_index (-1: none, the origin)
VertexIndex(a_index) ==
    IF a_index % 2 = 0 THEN ((a_index \div 2) \div 2) - 1 ELSE a_index \div 2

\* the data of vertex_render_scale_uniform: (height / width * scale, scale),
\* scale computed from the input's size, size_factor and recursion_depth;
\* kept as the values it is computed from (size and size_factor are fixed)
Scale(input, width, height) == <<width, height, input.recursion_depth>>

\* Uniform::new(gl, .., "u_scale", (1.0, 1.0))
ScaleNew == <<>>

\* FractalClockRenderer::initial_render_state
ClockInitialState ==
    [vertex_compute_input_buffer |-> ZeroTexture,
     uniforms |-> ZeroTexel,
     input_0 |-> ZeroTexture,
     output |-> ZeroTexture,
     scale |-> ScaleNew]

\* FractalClockRenderer::render, the state it leaves
ClockRenderState(st, input, render_data) ==
    IF render_data.input_changed \/ render_data.initial_render \/ input.animate
    THEN LET u == Angles(input, render_data.time)
             buffer == Prefill(st.vertex_compute_input_buffer, u)
             passed == Passes(u, buffer, st.output,
                              PassCount(input.recursion_depth))
         IN  [vertex_compute_input_buffer |-> buffer,
              uniforms |-> u,
              input_0 |-> passed[1],
              output |-> passed[2],
              scale |-> Scale(input, render_data.width, render_data.height)]
    ELSE [st EXCEPT
             !.scale = Scale(input, render_data.width, render_data.height)]

\* the state after construction: a canvas with one of the inputs, the
\* default buffer size and no render state yet
ClockInit ==
    /\ NoCanvas
    /\ NoLog
    /\ NoProgram
    /\ mSchema = <<>>
    /\ mCall = <<>>
    /\ mConsts = <<>>
    /\ route = "NotFound"
    /\ sections = <<>>
    /\ hAdded = <<>>
    /\ clock_input \in {Some(input) : input \in ClockInputs}
    /\ clock_state = None
    /\ clock_call = None
    /\ clock_input_changed = FALSE
    /\ clock_canvas = <<300, 150>>
    /\ hClockChanges = 0

\* one Rendering tick of the render loop with this renderer: the canvas is
\* resized to the displayed size, the state is built when there is none,
\* render is called, render_input_changed is reset; the frame times never
\* decrease
ClockTick(time, client) ==
    LET input == Unwrap(clock_input)
        sz == resize_to_display_size(clock_canvas, client)
        render_data == [initial_render |-> clock_state = None,
                        width |-> sz[1],
                        height |-> sz[2],
                        resized |-> sz[3],
                        input_changed |-> clock_input_changed,
                        time |-> time]
        st == IF clock_state = None THEN ClockInitialState
              ELSE Unwrap(clock_state)
    IN  /\ clock_call # None => time >= Unwrap(clock_call).render_data.time
        /\ clock_canvas' = <<sz[1], sz[2]>>
        /\ clock_state' = Some(ClockRenderState(st, input, render_data))
        /\ clock_call' = Some([input |-> input,
                               render_data |-> render_data,
                               draw_arrays |-> DrawCount(input.recursion_depth)])
        /\ clock_input_changed' = FALSE
        /\ UNCHANGED <<clock_input, hClockChanges, mSchema, mCall, mConsts,
                       route, sections, hAdded, cvars, pvars, gvars>>

\* the inputs Canvas::changed may bring after input: the next recursion
\* depth, the animation switched, the other hour angle
ClockChangedInputs(input) ==
    {[input EXCEPT !.recursion_depth = (@ % MAX_RECURSION_DEPTH) + 1],
     [input EXCEPT !.animate = ~@],
     [input EXCEPT !.hour_angle = (COMPLETE_TIME_ROTATION \div 4) - @]}

\* Canvas::changed with props that differ in render_input only: the new
\* input is stored and render_input_changed is set
ClockChanged(new_input) ==
    /\ hClockChanges < MaxClockChanges
    /\ new_input # Unwrap(clock_input)
    /\ clock_input' = Some(new_input)
    /\ clock_input_changed' = TRUE
    /\ hClockChanges' = hClockChanges + 1
    /\ UNCHANGED <<clock_state, clock_call, clock_canvas, mSchema, mCall,
                   mConsts, route, sections, hAdded, cvars, pvars, gvars>>

ClockNext ==
    \/ \E time \in ClockTimes, client \in ClockClientSizes :
          ClockTick(time, client)
    \/ \E new_input \in ClockChangedInputs(Unwrap(clock_input)) :
          ClockChanged(new_input)

ClockSpec == ClockInit /\ [][ClockNext]_vars

\* C25: a render call on a tick where nothing changed (initial_render,
\* input_changed and resized all false, same input) leaves the renderer's
\* state as it was: the compute program's input and output textures, its
\* uniforms and the CPU-side buffer are the same after the call as before.
C25_UnchangedTickKeepsState ==
    [][(/\ clock_call' # None
        /\ ~Unwrap(clock_call').render_data.initial_render
        /\ ~Unwrap(clock_call').render_data.input_changed
        /\ ~Unwrap(clock_call').render_data.resized
        /\ clock_input' = clock_input)
       => clock_state' = clock_state]_vars

\* C27: for every recursion depth d in 1..16, after the prefill of entries
\* 0..1023 and max(d - 10, 0) + 1 compute/copy passes, every entry the draw
\* call reads (indices 0 .. 2^(d+1) - 3, from 4 * (2^d - 1) vertices) has
\* been derived from the two root entries through the parent index
\* floor(i / 2) - 1, and all these indices lie inside the 1024 x 128 texture
\* and the 2^18-element vertex buffer.
C27_DrawReadsDerivedEntries ==
    clock_call # None =>
        LET d == Unwrap(clock_call).input.recursion_depth
            output == Unwrap(clock_state).output
            uniforms == Unwrap(clock_state).uniforms
            x == Unwrap(clock_call).draw_arrays
            last == 2^(d + 1) - 3
        IN  /\ x = 4 * (2^d - 1)
            /\ x <= VertexCount
            /\ \A a \in 0..(x - 1) :
                  LET i == VertexIndex(a) IN
                  i # -1 =>
                      /\ 0 <= i /\ i <= last
                      /\ i \in Texels
                      /\ TexelAt(output, i) = uniforms
            /\ \A i \in 0..last : 2 * i + 1 < x /\ VertexIndex(2 * i + 1) = i

\* C27 witness: the deepest clock has been drawn after seven passes
C27_Witness ==
    /\ clock_call # None
    /\ Unwrap(clock_call).render_data.initial_render
    /\ Unwrap(clock_call).input.recursion_depth = MAX_RECURSION_DEPTH
    /\ PassCount(MAX_RECURSION_DEPTH) = 7
    /\ Unwrap(clock_call).draw_arrays = 262140
    /\ TexelAt(Unwrap(clock_state).output, 131069) = Unwrap(clock_state).uniforms
    /\ TexelAt(Unwrap(clock_state).output, 131069) # ZeroTexel

====
